---- MODULE Spec2Model ----
(***************************************************************************)
(* AgenticSearch: the research orchestration loop (executeResearchQuery),  *)
(* the hook that drives it (useResearchAgent / researchReducer), the       *)
(* streaming half of the OpenRouter client (OpenRouterClient.handleStream),*)
(* the tool executor (executeToolCall) and citation mode: the citation     *)
(* strippers, claim validation and merging, the basis builder and the      *)
(* hook that holds the Bases (useCitationMode / citationModeReducer).      *)
(*                                                                         *)
(* Several state machines share this module, each over its own variables.  *)
(* Spec is the research hook plus one orchestration run at a time (the     *)
(* page disables the query input while a run is in flight); each action is *)
(* the code executed between two awaits.  SpecStream is one handleStream   *)
(* call fed by an arbitrary sequence of reads.  SpecTool is the tool calls *)
(* of a run and the sources they report.  SpecCite and SpecClaims are      *)
(* calls of the pure functions of citation mode.  SpecBasis is one call of *)
(* buildBasesForClaims, SpecMode the citation-mode hook, its analysis run  *)
(* and the user.  SpecRun is one runCitationMode call on an answer text,   *)
(* from stripping to the Bases; SpecExcerpt is the excerpt fetcher with    *)
(* its cache and its workers; SpecScore is calculateOverallConfidence.     *)
(* SpecReads is handleStream on a body whose reads are recorded, SpecBatch *)
(* one fetchExcerptsBatch call with a record of its fetchExcerpt calls,    *)
(* SpecCeiling the runs in which every turn requests tools and every call  *)
(* returns, SpecOverlap the research hook with submitQuery called while a  *)
(* run is in flight.                                                       *)
(*                                                                         *)
(* Operators that pass a world on (Drain, ForStep, LoopHead, PhaseThree,   *)
(* the Apply operators) take it through a one-element set, which fixes its *)
(* value before the body reads it.                                         *)
(***************************************************************************)
EXTENDS Integers, Sequences, FiniteSets, TLC

(***************************************************************************)
(* Program constants                                                       *)
(***************************************************************************)
MAX_ITERATIONS == 50

chunkSize == 10

(***************************************************************************)
(* Bounds of the model                                                     *)
(***************************************************************************)
\* longest answer text a final turn carries (more than two chunks)
MaxContentLen == 21

\* most content deltas one streamed synthesis delivers
MaxDeltas == 2

\* most chat requests of a run that is in flight together with another one
MaxOverlapTurns == 2

\* most lines the provider sends on one stream
MaxLines == 3

\* most lines of a stream whose reads are recorded
MaxReadLines == 2

\* most tool calls executed in one run
MaxToolCalls == 2

\* most pieces (links and fragments of links) a text is made of
MaxPieces == 3

\* longest claim text of arbitrary shape
MaxClaimText == 2

\* most claims in a list to merge
MaxClaims == 3

\* most claims handed to the basis builder (one full batch and a short one)
MaxBasisClaims == 7

\* most Bases one analysis of the citation-mode hook makes
MaxBases == 2

\* most analyses the user starts
MaxRuns == 1

\* most things the user does to the Bases on display
MaxUserActions == 1

\* most Bases in a list that is scored
MaxScored == 4

\* most (source, claim) pairs handed to the excerpt fetcher
MaxPairs == 4

\* most sentences in an answer that citation mode is run on
MaxSentences == 6

(***************************************************************************)
(* Values                                                                  *)
(***************************************************************************)
\* JavaScript null for ResearchState.error and ResearchState.lastQuery
NoError == "<null>"

NoQuery == <<"<null>">>

\* answer text of n characters (characters are digits)
Text(n) == [i \in 1..n |-> i % 10]

Min(a, b) == IF a < b THEN a ELSE b

\* String.prototype.slice(from, to) for 0 <= from <= to, 0-based, end exclusive
Slice(s, from, to) == SubSeq(s, from + 1, Min(to, Len(s)))

\* the white space String.prototype.trim() removes
IsSpace(c) == c \in { " ", "\r", "\t" }

RECURSIVE TrimStart(_)
TrimStart(s) == IF s # <<>> /\ IsSpace(Head(s)) THEN TrimStart(Tail(s)) ELSE s

RECURSIVE TrimEnd(_)
TrimEnd(s) ==
  IF s # <<>> /\ IsSpace(s[Len(s)]) THEN TrimEnd(SubSeq(s, 1, Len(s) - 1)) ELSE s

\* String.prototype.trim()
Trim(s) == TrimEnd(TrimStart(s))

\* what the user may type into the query box
Queries == { <<>>, <<" ">>, <<"a">>, <<" ", "a", " ">>, <<"b">> }

SYSTEM_PROMPT == "You are an advanced web research assistant"

KEYS_ERROR == "API keys not configured. Please add your OpenRouter and Parallel API keys."

DEFAULT_ERROR == "An error occurred during research"

\* messages of the errors client.chat can throw in non-streaming mode: HTTP status
\* not ok (or fetch rejecting), and an error whose message is empty
ChatErrors == { "OpenRouter API error: 500 - upstream", "" }

\* streaming mode adds the provider error frame
StreamErrors == ChatErrors \cup { "Provider error: overloaded (Code: 529)" }

\* messages of the errors executeToolCall can throw
ToolErrors == { "Unknown tool: lookup" }

\* results executeToolCall can return
ToolResults == { "results" }

(***************************************************************************)
(* State                                                                   *)
(***************************************************************************)
VARIABLES
  state,   \* ResearchState held by useReducer in useResearchAgent
  run,     \* the activation of executeResearchQuery: where it is suspended
           \* (pc) and its locals
  obs,     \* observers of the run: what it has asked of the outside world
  ov,      \* a hook whose submitQuery is called while a run is in flight: its
           \* ResearchState and the activations of its two runs
  net,     \* the response body of a streaming call: what is still to arrive
  hs,      \* the activation of handleStream: where it is (pc) and its locals
  sobs,    \* observers of handleStream: callbacks made, frames handled
  rd,      \* the reads of a recorded stream: the chunks delivered, in order
  tstate,  \* ResearchState of the hook whose run executes tool calls
  tool,    \* the activation of executeToolCall: where it is (pc), its locals
  tobs,    \* observers of executeToolCall: provider requests, Sources reported
  cite,    \* the last call of stripCitations or stripCitationsKeepText
  cl,      \* the last call of validateClaimExtractionResult or mergeClaims
  bb,      \* the activation of buildBasesForClaims: where it is, its locals
  bbobs,   \* observers of buildBasesForClaims: LLM requests, callbacks made
  cm,      \* CitationModeState held by useReducer in useCitationMode
  an,      \* the activation of analyze: where it is suspended, its run
  cmobs,   \* observers of useCitationMode: dispatches, fetches in flight
  sc,      \* the last call of calculateOverallConfidence
  rc,      \* the activation of runCitationMode: where it is, its locals
  rcobs,   \* observers of runCitationMode: callbacks made, requests sent
  ex,      \* the excerpt cache and the activations of fetchExcerpt
  exobs    \* observers of the excerpt fetcher: requests sent, calls in flight

agentVars == << state, run, obs, ov >>

streamVars == << net, hs, sobs, rd >>

toolVars == << tstate, tool, tobs >>

citeVars == << cite >>

claimVars == << cl >>

basisVars == << bb, bbobs >>

modeVars == << cm, an, cmobs >>

scoreVars == << sc >>

runVars == << rc, rcobs >>

excerptVars == << ex, exobs >>

vars ==
  << agentVars, streamVars, toolVars, citeVars, claimVars, basisVars,
     modeVars, scoreVars, runVars, excerptVars >>

\* useReducer's initial state
InitialState ==
  [ status |-> "idle", currentResponse |-> <<>>, toolCalls |-> <<>>,
    sources |-> <<>>, error |-> NoError, lastQuery |-> NoQuery ]

\* lastResponse before the first response
NoResponse == [ none |-> TRUE ]

\* the locals of executeResearchQuery as the call starts
NewRun(q) ==
  [ pc |-> "start", query |-> q,
    messages |-> << [ role |-> "system", content |-> SYSTEM_PROMPT ],
                    [ role |-> "user", content |-> q ] >>,
    iteration |-> 0, lastResponse |-> NoResponse,
    toolCalls |-> <<>>, tcIdx |-> 0, chunkPos |-> 0 ]

NoRun == [ NewRun(NoQuery) EXCEPT !.pc = "idle", !.messages = <<>> ]

NewObs ==
  [ chatRequests |-> 0, streamRequests |-> 0, toolRequests |-> 0,
    turnEvents |-> <<>>, outcomes |-> <<>>, emitted |-> <<>>,
    deltas |-> <<>>, last |-> "none" ]

(***************************************************************************)
(* researchReducer                                                         *)
(***************************************************************************)
\* Array.prototype.findIndex(tc => tc.id === id), 1-based, 0 when absent
FindIndex(tcs, id) ==
  IF \E i \in 1..Len(tcs) : tcs[i].id = id
  THEN CHOOSE i \in 1..Len(tcs) :
         /\ tcs[i].id = id
         /\ \A j \in 1..(i - 1) : tcs[j].id # id
  ELSE 0

\* a test for duplicates that also compares the type of the source
SomeUrlAndType(sources, payload) ==
  \E i \in 1..Len(sources) :
    sources[i].url = payload.url /\ sources[i].type = payload.type

\* state.sources.some(s => s.url === action.payload.url)
SomeUrl(sources, payload) ==
  \E i \in 1..Len(sources) : sources[i].url = payload.url

researchReducer(st, action) ==
  CASE action.type = "START" ->
         [ st EXCEPT !.status = "searching", !.currentResponse = <<>>,
                     !.toolCalls = <<>>, !.sources = <<>>, !.error = NoError,
                     !.lastQuery = action.payload ]
    [] action.type = "TOOL_CALL" ->
         LET existingIndex == FindIndex(st.toolCalls, action.payload.id) IN
         IF existingIndex >= 1
         THEN [ st EXCEPT !.toolCalls[existingIndex] = action.payload ]
         ELSE [ st EXCEPT !.toolCalls = Append(@, action.payload) ]
    [] action.type = "STREAM_CHUNK" ->
         [ st EXCEPT !.status = "synthesizing",
                     !.currentResponse = @ \o action.payload ]
    [] action.type = "SOURCE_ADDED" ->
         IF SomeUrl(st.sources, action.payload)
         THEN st
         ELSE [ st EXCEPT !.sources = Append(@, action.payload) ]
    [] action.type = "COMPLETE" -> [ st EXCEPT !.status = "complete" ]
    [] action.type = "ERROR" ->
         [ st EXCEPT !.status = "error", !.error = action.payload ]
    [] action.type = "RESET" ->
         [ st EXCEPT !.status = "idle", !.currentResponse = <<>>,
                     !.toolCalls = <<>>, !.sources = <<>>, !.error = NoError,
                     !.lastQuery = NoQuery ]
    [] OTHER -> st

\* a world is the hook state, the run and the observers together
World(st, r, o) == [ state |-> st, run |-> r, obs |-> o ]

Dispatch(w, action) == [ w EXCEPT !.state = researchReducer(w.state, action) ]

(***************************************************************************)
(* The callbacks submitQuery hands to executeResearchQuery                 *)
(***************************************************************************)
OnToolCall(w, call, status) ==
  Dispatch(w, [ type |-> "TOOL_CALL",
                payload |-> [ id |-> call.id, name |-> call.name,
                              status |-> status ] ])

OnStreamChunk(w, chunk) ==
  LET w1 == [ w EXCEPT !.obs.emitted = Append(@, chunk) ] IN
  IF chunk # <<>>
  THEN Dispatch(w1, [ type |-> "STREAM_CHUNK", payload |-> chunk ])
  ELSE w1

(***************************************************************************)
(* executeResearchQuery, cut at its awaits                                 *)
(***************************************************************************)
\* JSON.stringify of a tool result or of {error: message}: the history holds
\* the serialised text, not the object
JSONstringify(v) == [ json |-> v ]

\* lastResponse && lastResponse.choices[0]?.message?.content
HasContent(resp) == "message" \in DOMAIN resp /\ resp.message.content # <<>>

\* finishReason !== 'tool_calls' || !choice.message.tool_calls
EndsGathering(resp) ==
  resp.finish_reason # "tool_calls" \/ "tool_calls" \notin DOMAIN resp.message

\* the loop test off by one
LoopContinuesInclusive(it) == it <= MAX_ITERATIONS

\* while (iteration < MAX_ITERATIONS)
LoopContinues(it) == it < MAX_ITERATIONS

\* the tool calls visited last to first
CallOrderReversed(tcs) == [ k \in 1..Len(tcs) |-> Len(tcs) - k + 1 ]

\* for (const toolCall of toolCalls): the positions in the order visited
CallOrder(tcs) == [ k \in 1..Len(tcs) |-> k ]

\* Phase 3 up to its first await
PhaseThree(world) ==
  LET Run(w) ==
        IF HasContent(w.run.lastResponse)
        THEN LET content == w.run.lastResponse.message.content
                 w1 == OnStreamChunk(w, Slice(content, 0, chunkSize))
             IN  [ w1 EXCEPT !.run.pc = "await_timer", !.run.chunkPos = 0 ]
        ELSE [ w EXCEPT !.run.pc = "await_stream", !.obs.streamRequests = @ + 1 ]
  IN  CHOOSE after \in { Run(w) : w \in { world } } : TRUE

\* a loop that gives up at the ceiling: the run is rejected
LoopHeadGivingUp(w) ==
  IF LoopContinues(w.run.iteration)
  THEN [ w EXCEPT !.run.iteration = @ + 1, !.run.pc = "await_chat",
                  !.obs.chatRequests = @ + 1 ]
  ELSE Dispatch([ w EXCEPT !.run.pc = "rejected" ],
                [ type |-> "ERROR", payload |-> "Maximum iterations reached" ])

\* the head of the gathering loop up to the next await
LoopHead(world) ==
  LET Run(w) ==
        IF LoopContinues(w.run.iteration)
        THEN [ w EXCEPT !.run.iteration = @ + 1, !.run.pc = "await_chat",
                        !.obs.chatRequests = @ + 1 ]
        ELSE PhaseThree(w)
  IN  CHOOSE after \in { Run(w) : w \in { world } } : TRUE

\* the tool loop at position k up to the next await
ForStep(world, k) ==
  LET Run(w) ==
        IF k <= Len(w.run.toolCalls)
        THEN LET i == CallOrder(w.run.toolCalls)[k]
                 w1 == OnToolCall(w, w.run.toolCalls[i], "executing")
             IN  [ w1 EXCEPT !.run.pc = "await_tool", !.run.tcIdx = k,
                             !.obs.toolRequests = @ + 1,
                             !.obs.turnEvents =
                                @ \o << [ kind |-> "executing", call |-> i ],
                                        [ kind |-> "dispatch", call |-> i ] >> ]
        ELSE LoopHead(w)
  IN  CHOOSE after \in { Run(w) : w \in { world } } : TRUE

\* the response pushed onto the history before the test that ends the loop
AfterChatAppending(w, resp) ==
  LET w1 == [ w EXCEPT !.run.lastResponse = resp,
                       !.run.messages = Append(@, resp.message) ]
  IN  IF EndsGathering(resp)
      THEN PhaseThree(w1)
      ELSE ForStep([ w1 EXCEPT !.run.toolCalls = resp.message.tool_calls,
                               !.obs.turnEvents = <<>>,
                               !.obs.outcomes = <<>> ], 1)

\* the non-streaming response arrives
AfterChat(w, resp) ==
  LET w1 == [ w EXCEPT !.run.lastResponse = resp ] IN
  IF EndsGathering(resp)
  THEN PhaseThree(w1)
  ELSE ForStep([ w1 EXCEPT !.run.messages = Append(@, resp.message),
                           !.run.toolCalls = resp.message.tool_calls,
                           !.obs.turnEvents = <<>>,
                           !.obs.outcomes = <<>> ], 1)

\* the tool loop without its try/catch: a throw leaves executeResearchQuery
AfterToolUncaught(w, outcome) ==
  IF outcome.ok
  THEN ForStep([ w EXCEPT !.run.messages =
                   Append(@, [ role |-> "tool",
                               tool_call_id |-> w.run.toolCalls[w.run.tcIdx].id,
                               content |-> JSONstringify(
                                             [ result |-> outcome.value ]) ]) ],
               w.run.tcIdx + 1)
  ELSE Dispatch([ w EXCEPT !.run.pc = "rejected" ],
                [ type |-> "ERROR", payload |-> outcome.message ])

\* executeToolCall settles: outcome.ok with a result, or a throw with a message
AfterTool(w, outcome) ==
  LET k == w.run.tcIdx
      i == CallOrder(w.run.toolCalls)[k]
      toolCall == w.run.toolCalls[i]
      msg == [ role |-> "tool", tool_call_id |-> toolCall.id,
               content |-> IF outcome.ok
                           THEN JSONstringify([ result |-> outcome.value ])
                           ELSE JSONstringify([ error |-> outcome.message ]) ]
      status == IF outcome.ok THEN "complete" ELSE "error"
      w1 == [ w EXCEPT !.run.messages = Append(@, msg),
                       !.obs.turnEvents =
                          @ \o << [ kind |-> "message", call |-> i ],
                                  [ kind |-> status, call |-> i ] >> ]
      w2 == OnToolCall(w1, toolCall, status)
  IN  ForStep(w2, k + 1)

\* the chunk loop with its test off by one
AfterTimerInclusive(w) ==
  LET content == w.run.lastResponse.message.content
      i == w.run.chunkPos + chunkSize
  IN  IF i <= Len(content)
      THEN [ OnStreamChunk(w, Slice(content, i, i + chunkSize))
               EXCEPT !.run.chunkPos = i ]
      ELSE [ w EXCEPT !.run.pc = "resolved" ]

\* the 20 ms timer of the chunk loop fires
AfterTimer(w) ==
  LET content == w.run.lastResponse.message.content
      i == w.run.chunkPos + chunkSize
  IN  IF i < Len(content)
      THEN [ OnStreamChunk(w, Slice(content, i, i + chunkSize))
               EXCEPT !.run.chunkPos = i ]
      ELSE [ w EXCEPT !.run.pc = "resolved" ]

(***************************************************************************)
(* submitQuery                                                             *)
(***************************************************************************)
\* dispatch({ type: 'COMPLETE' }) once the awaited run has resolved
SubmitThen(w) ==
  IF w.run.pc = "resolved" THEN Dispatch(w, [ type |-> "COMPLETE" ]) ELSE w

\* submitQuery without its catch block: the failure is not reported
SubmitCatchMissing(w, message) ==
  Dispatch([ w EXCEPT !.run.pc = "rejected" ], [ type |-> "COMPLETE" ])

\* the catch block: error.message || 'An error occurred during research'
SubmitCatch(w, message) ==
  Dispatch([ w EXCEPT !.run.pc = "rejected" ],
           [ type |-> "ERROR",
             payload |-> IF message # "" THEN message ELSE DEFAULT_ERROR ])

submitQuery(w, q, keysOk) ==
  LET trimmedQuery == Trim(q) IN
  IF trimmedQuery = <<>> THEN w
  ELSE IF ~keysOk THEN Dispatch(w, [ type |-> "ERROR", payload |-> KEYS_ERROR ])
  ELSE LET w1 == Dispatch(w, [ type |-> "START", payload |-> trimmedQuery ])
       IN  LoopHead([ w1 EXCEPT !.run = NewRun(trimmedQuery), !.obs = NewObs ])

\* retry: if (state.lastQuery) submitQuery(state.lastQuery)
retry(w, keysOk) ==
  IF w.state.lastQuery # NoQuery /\ w.state.lastQuery # <<>>
  THEN submitQuery(w, w.state.lastQuery, keysOk)
  ELSE w

(***************************************************************************)
(* The outside world of one run                                            *)
(***************************************************************************)
Call(it, n, name) == [ id |-> << it, n >>, name |-> name ]

Assistant(content) == [ role |-> "assistant", content |-> content ]

ToolTurn(content, calls) ==
  [ finish_reason |-> "tool_calls",
    message |-> [ role |-> "assistant", content |-> content,
                  tool_calls |-> calls ] ]

\* the turn of a model that searches once and says nothing
PlainTurn(it) == ToolTurn(<<>>, << Call(it, 1, "search_web") >>)

\* the iterations at which the model's turn and the outcome of its tool calls
\* range over every shape below; in between the model takes plain turns or ends
VariedIterations == { 1, MAX_ITERATIONS }

\* tool_calls arrays: empty, one call, two calls, two calls sharing an id
CallLists(it) ==
  { <<>>,
    << Call(it, 1, "search_web") >>,
    << Call(it, 1, "search_web"), Call(it, 2, "extract_url") >>,
    << Call(it, 1, "extract_url"), Call(it, 1, "search_web") >> }

\* turns that ask for tools
ToolTurns(it) ==
  IF it \in VariedIterations
  THEN { ToolTurn(c, calls) : c \in { <<>>, Text(chunkSize + 1) },
                              calls \in CallLists(it) }
  ELSE { PlainTurn(it) }

\* turns that end the gathering: an answer of any length (none included), a
\* finish_reason of tool_calls without the array, the array without the reason
FinalTurns(it) ==
  IF it \in VariedIterations
  THEN { [ finish_reason |-> "stop", message |-> Assistant(Text(n)) ] :
           n \in 0..MaxContentLen }
       \cup { [ finish_reason |-> "tool_calls", message |-> Assistant(<<>>) ] }
       \cup { [ finish_reason |-> "length",
                message |-> ToolTurn(c, calls).message ] :
                c \in { <<>>, Text(1) }, calls \in CallLists(it) }
  ELSE { [ finish_reason |-> "stop", message |-> Assistant(c) ] :
           c \in { <<>>, Text(chunkSize + 1) } }

Responses(it) == ToolTurns(it) \cup FinalTurns(it)

ToolOutcomes(it) ==
  { [ ok |-> TRUE, value |-> v ] : v \in ToolResults }
  \cup IF it \in VariedIterations
       THEN { [ ok |-> FALSE, message |-> m ] : m \in ToolErrors }
       ELSE {}

\* content deltas of a streamed synthesis
Deltas == { Text(1), Text(2) }

(***************************************************************************)
(* Actions                                                                 *)
(***************************************************************************)
Here == World(state, run, obs)

\* a settled call of executeResearchQuery leaves nothing behind: the user's
\* next action finds no activation of it
Collected ==
  IF run.pc \in { "resolved", "rejected" }
  THEN World(state, NoRun, NewObs)
  ELSE Here

\* the step of the named action leads to world w
Apply(name, world) ==
  /\ \E w \in { world } :
       /\ state' = w.state /\ run' = w.run
       /\ obs' = [ w.obs EXCEPT !.last = name ]
  /\ UNCHANGED ov
  /\ UNCHANGED << streamVars, toolVars, citeVars, claimVars, basisVars,
                  modeVars, scoreVars, runVars, excerptVars >>

\* ResearchAgent: the query input is disabled while this holds
isProcessing == state.status \notin { "idle", "complete", "error" }

\* the user submits the query box
Submit ==
  /\ ~isProcessing
  /\ \E q \in Queries, keysOk \in BOOLEAN : Apply("Submit", submitQuery(Collected, q, keysOk))

\* the user presses retry on the error display
Retry ==
  /\ state.error # NoError
  /\ \E keysOk \in BOOLEAN : Apply("Retry", retry(Collected, keysOk))

\* the user dismisses the error display
Reset ==
  /\ state.error # NoError
  /\ Apply("Reset", Dispatch(Collected, [ type |-> "RESET" ]))

ChatResolves ==
  /\ run.pc = "await_chat"
  /\ \E resp \in Responses(run.iteration) : Apply("ChatResolves", AfterChat(Here, resp))

ChatRejects ==
  /\ run.pc = "await_chat"
  /\ \E m \in ChatErrors : Apply("ChatRejects", SubmitCatch(Here, m))

\* executeToolCall settles, with a result or with a throw
ToolSettles ==
  /\ run.pc = "await_tool"
  /\ \E o \in ToolOutcomes(run.iteration) :
       Apply(IF o.ok THEN "ToolReturns" ELSE "ToolThrows",
             AfterTool([ Here EXCEPT !.obs.outcomes = Append(@, o) ], o))

TimerFires ==
  /\ run.pc = "await_timer"
  /\ Apply("TimerFires", SubmitThen(AfterTimer(Here)))

\* the streaming call of phase 3 hands one content delta to onStream
StreamDelta ==
  /\ run.pc = "await_stream"
  /\ Len(obs.deltas) < MaxDeltas
  /\ \E d \in Deltas :
       Apply("StreamDelta",
             OnStreamChunk([ Here EXCEPT !.obs.deltas = Append(@, d) ], d))

StreamResolves ==
  /\ run.pc = "await_stream"
  /\ Apply("StreamResolves", SubmitThen([ Here EXCEPT !.run.pc = "resolved" ]))

StreamRejects ==
  /\ run.pc = "await_stream"
  /\ \E m \in StreamErrors : Apply("StreamRejects", SubmitCatch(Here, m))

\* the user submits a query with both keys configured
SubmitWithKeys ==
  /\ ~isProcessing
  /\ \E q \in { << "a" >>, << "b" >> } :
       Apply("SubmitWithKeys", submitQuery(Collected, q, TRUE))

\* the chat call returns a turn that requests tools
ToolTurnArrives ==
  /\ run.pc = "await_chat"
  /\ \E resp \in ToolTurns(run.iteration) :
       Apply("ToolTurnArrives", AfterChat(Here, resp))

(***************************************************************************)
(* submitQuery called while a run is in flight                             *)
(*                                                                         *)
(* The hook has one reducer state and no record of which run is current:   *)
(* every run dispatches to it through the callbacks it was given.  At most *)
(* two runs are in flight at once; "later" is the run started last.        *)
(***************************************************************************)
\* mirror: the state the reducer would hold if, since the last START, it had
\* been sent the actions of the run started last and no others
\* streamed: the content deltas each run's streaming call has delivered
NewOverlap ==
  [ state |-> InitialState, earlier |-> NoRun, later |-> NoRun,
    mirror |-> InitialState,
    streamed |-> [ earlier |-> 0, later |-> 0 ] ]

RunInFlight(r) ==
  r.pc \in { "await_chat", "await_tool", "await_timer", "await_stream" }

\* the world of one of the two runs over a reducer state
OWorld(which, st) == World(st, ov[which], NewObs)

\* the provider's call ids are unique: the model takes them from the query
\* of the run, and runs in flight together have different queries
OverlapResponses(r) ==
  { [ finish_reason |-> "stop", message |-> Assistant(c) ] :
      c \in { <<>>, Text(chunkSize + 1) } }
  \cup IF r.iteration < MaxOverlapTurns
       THEN { ToolTurn(<<>>, << Call(<< r.query, r.iteration >>, 1,
                                    "search_web") >>) }
       ELSE {}

\* a step of one run: real is its world over the hook's state, shadow its
\* world over the mirror
OApply(which, real, shadow) ==
  /\ \E w \in { real }, m \in { shadow } :
       ov' = [ ov EXCEPT !.state = w.state, ![which] = w.run,
                         !.mirror = IF which = "later" THEN m.state ELSE @ ]
  /\ UNCHANGED << state, run, obs >>
  /\ UNCHANGED << streamVars, toolVars, citeVars, claimVars, basisVars,
                  modeVars, scoreVars, runVars, excerptVars >>

\* submitQuery is called, whether or not a run is in flight
OverlapSubmit ==
  /\ ~(RunInFlight(ov.earlier) /\ RunInFlight(ov.later))
  /\ \E q \in { << "a" >>, << "b" >> } :
       /\ RunInFlight(ov.earlier) => q # ov.earlier.query
       /\ RunInFlight(ov.later) => q # ov.later.query
       /\ \E w \in { submitQuery(World(ov.state, NoRun, NewObs), q, TRUE) } :
            ov' = [ state |-> w.state, mirror |-> w.state, later |-> w.run,
                    earlier |-> IF RunInFlight(ov.later) THEN ov.later
                                ELSE ov.earlier,
                    streamed |->
                      [ earlier |-> IF RunInFlight(ov.later)
                                    THEN ov.streamed.later
                                    ELSE ov.streamed.earlier,
                        later |-> 0 ] ]
  /\ UNCHANGED << state, run, obs >>
  /\ UNCHANGED << streamVars, toolVars, citeVars, claimVars, basisVars,
                  modeVars, scoreVars, runVars, excerptVars >>

OverlapChatResolves ==
  \E which \in { "earlier", "later" } :
    /\ ov[which].pc = "await_chat"
    /\ \E resp \in OverlapResponses(ov[which]) :
         OApply(which, AfterChat(OWorld(which, ov.state), resp),
                AfterChat(OWorld(which, ov.mirror), resp))

OverlapChatRejects ==
  \E which \in { "earlier", "later" } :
    /\ ov[which].pc = "await_chat"
    /\ \E m \in ChatErrors :
         OApply(which, SubmitCatch(OWorld(which, ov.state), m),
                SubmitCatch(OWorld(which, ov.mirror), m))

OverlapToolSettles ==
  \E which \in { "earlier", "later" } :
    /\ ov[which].pc = "await_tool"
    /\ \E o \in ToolOutcomes(1) :
         OApply(which, AfterTool(OWorld(which, ov.state), o),
                AfterTool(OWorld(which, ov.mirror), o))

OverlapTimerFires ==
  \E which \in { "earlier", "later" } :
    /\ ov[which].pc = "await_timer"
    /\ OApply(which, SubmitThen(AfterTimer(OWorld(which, ov.state))),
              SubmitThen(AfterTimer(OWorld(which, ov.mirror))))

OverlapStreamDelta ==
  \E which \in { "earlier", "later" } :
    /\ ov[which].pc = "await_stream"
    /\ ov.streamed[which] < MaxDeltas
    /\ \E d \in { Text(1) } :
         \E w \in { OnStreamChunk(OWorld(which, ov.state), d) },
            m \in { OnStreamChunk(OWorld(which, ov.mirror), d) } :
           ov' = [ ov EXCEPT !.state = w.state,
                             !.mirror = IF which = "later" THEN m.state ELSE @,
                             !.streamed[which] = @ + 1 ]
    /\ UNCHANGED << state, run, obs >>
    /\ UNCHANGED << streamVars, toolVars, citeVars, claimVars, basisVars,
                    modeVars, scoreVars, runVars, excerptVars >>

OverlapStreamResolves ==
  \E which \in { "earlier", "later" } :
    /\ ov[which].pc = "await_stream"
    /\ OApply(which,
              SubmitThen([ OWorld(which, ov.state) EXCEPT
                             !.run.pc = "resolved" ]),
              SubmitThen([ OWorld(which, ov.mirror) EXCEPT
                             !.run.pc = "resolved" ]))

(***************************************************************************)
(* OpenRouterClient.handleStream                                           *)
(*                                                                         *)
(* The body is a sequence of units: the characters that matter to the      *)
(* parser ("\n", white space, the two halves of the "data: " prefix) and   *)
(* whole payload texts.  A read delivers any number of units.              *)
(***************************************************************************)
NL == "\n"

Prefix == << "da", "ta: " >>

\* line.startsWith('data: ')
StartsWithData(line) == Len(line) >= 2 /\ SubSeq(line, 1, 2) = Prefix

\* line.slice(6)
SliceSix(line) == SubSeq(line, 3, Len(line))

\* buffer.split('\n'): the pieces between the newlines, the last one included
RECURSIVE Split(_)
Split(buf) ==
  IF \E i \in 1..Len(buf) : buf[i] = NL
  THEN LET i == CHOOSE j \in 1..Len(buf) :
                  buf[j] = NL /\ \A m \in 1..(j - 1) : buf[m] # NL
       IN  << SubSeq(buf, 1, i - 1) >> \o Split(SubSeq(buf, i + 1, Len(buf)))
  ELSE << buf >>

\* the value JSON.parse returns for a payload text
Payload(tok) ==
  CASE tok = "{c}" ->
         [ choices |-> << [ delta |-> [ content |-> << "x" >> ] ] >> ]
    [] tok = "{r}" ->
         [ choices |-> << [ delta |-> [ reasoning_content |-> << "r" >> ] ] >> ]
    [] tok = "{f}" ->
         [ choices |-> << [ delta |-> [ content |-> <<>> ],
                            finish_reason |-> "tool_calls" ] >> ]
    [] tok = "{fs}" ->
         [ choices |-> << [ delta |-> [ reasoning |-> << "s" >> ],
                            finish_reason |-> "stop" ] >> ]
    [] tok = "{t0a}" ->
         [ choices |-> << [ delta |-> [ tool_calls |-> <<
             [ index |-> 0, id |-> "call_a",
               function |-> [ name |-> "search_web",
                              arguments |-> << "{\"obj" >> ] ] >> ] ] >> ]
    [] tok = "{t0b}" ->
         [ choices |-> << [ delta |-> [ tool_calls |-> <<
             [ index |-> 0,
               function |-> [ arguments |-> << "ective\":\"x\"}" >> ] ] >> ] ] >> ]
    [] tok = "{t0c}" ->
         [ choices |-> << [ delta |-> [ tool_calls |-> <<
             [ index |-> 0, id |-> "call_z",
               function |-> [ name |-> "extract_url" ] ] >> ] ] >> ]
    [] tok = "{t1n}" ->
         [ choices |-> << [ delta |-> [ tool_calls |-> <<
             [ index |-> 1, id |-> "call_b",
               function |-> [ name |-> "extract_url",
                              arguments |-> << "{}" >> ] ],
             [ function |-> [ arguments |-> << "[" >> ] ] >> ] ] >> ]
    [] tok = "{e}" ->
         [ error |-> [ message |-> "overloaded", code |-> 529 ] ]
    [] tok = "{}" -> [ id |-> "gen-1" ]

\* the payload texts that are JSON
JsonTexts ==
  { "{c}", "{r}", "{f}", "{fs}", "{t0a}", "{t0b}", "{t0c}", "{t1n}", "{e}", "{}" }

\* JSON.parse(data): the value, or a SyntaxError
JSONparse(data) ==
  IF Len(data) = 1 /\ data[1] \in JsonTexts
  THEN [ ok |-> TRUE, value |-> Payload(data[1]) ]
  ELSE [ ok |-> FALSE, message |-> << "Unexpected token" >> ]

Data(tok) == Prefix \o << tok >>

\* the lines a provider may send: every JSON frame, a truncated JSON text, the
\* terminator, a frame padded with white space, an empty data line, a comment
Lines ==
  { Data(t) : t \in JsonTexts }
  \cup { Data("{\"choi"), Data("[DONE]"), Prefix \o << " ", "{c}", "\r" >>,
         Prefix, << ": OPENROUTER PROCESSING" >> }

\* r.f when present, else d
Field(r, f, d) == IF f \in DOMAIN r THEN r[f] ELSE d

\* `call_${index}`
CallId(index) == "call_" \o ToString(index)

ProviderError(err) ==
  << "Provider error: ", err.message, " (Code: ", err.code, ")" >>

NoFinish == "<null>"

\* the locals of handleStream as it starts to read
NewStream ==
  [ pc |-> "await_read", buffer |-> <<>>, lines |-> <<>>,
    content |-> <<>>, reasoning |-> <<>>, finishReason |-> NoFinish,
    toolCallsMap |-> <<>>, locked |-> TRUE,
    error |-> <<>>, result |-> [ none |-> TRUE ] ]

NewStreamObs ==
  [ calls |-> <<>>, kinds |-> <<>>, tcLog |-> <<>>, finishLog |-> <<>>,
    warned |-> 0 ]

NewNet == [ pending |-> <<>>, sent |-> 0 ]

\* a stream world: the activation and its observers
SWorld(h, o) == [ h |-> h, o |-> o ]

\* position of the entry for index in the map, 0 when there is none
MapPos(map, index) ==
  IF \E p \in 1..Len(map) : map[p].index = index
  THEN CHOOSE p \in 1..Len(map) : map[p].index = index
  ELSE 0

\* a merge in which a later delta's id and name replace the first one's
MergeToolCallOverwriting(map, tc) ==
  LET index == Field(tc, "index", 0)
      fn == Field(tc, "function", [ none |-> TRUE ])
      args == Field(fn, "arguments", <<>>)
      p == MapPos(map, index)
  IN  IF p >= 1
      THEN [ map EXCEPT ![p].call.id = Field(tc, "id", @),
                        ![p].call.function.name = Field(fn, "name", @),
                        ![p].call.function.arguments = @ \o args ]
      ELSE Append(map,
             [ index |-> index,
               call |-> [ id |-> Field(tc, "id", CallId(index)),
                          type |-> "function",
                          function |-> [ name |-> Field(fn, "name", ""),
                                         arguments |-> args ] ] ])

\* the body of `for (const tc of delta.tool_calls)` for one tc
MergeToolCall(map, tc) ==
  LET index == Field(tc, "index", 0)
      fn == Field(tc, "function", [ none |-> TRUE ])
      args == Field(fn, "arguments", <<>>)
      p == MapPos(map, index)
  IN  IF p >= 1
      THEN IF args # <<>>
           THEN [ map EXCEPT ![p].call.function.arguments = @ \o args ]
           ELSE map
      ELSE Append(map,
             [ index |-> index,
               call |-> [ id |-> IF Field(tc, "id", "") # ""
                                 THEN tc.id ELSE CallId(index),
                          type |-> "function",
                          function |-> [ name |-> Field(fn, "name", ""),
                                         arguments |-> args ] ] ])

RECURSIVE MergeToolCalls(_, _)
MergeToolCalls(map, tcs) ==
  IF tcs = <<>> THEN map
  ELSE MergeToolCalls(MergeToolCall(map, Head(tcs)), Tail(tcs))

\* the try block for a parsed frame that is no error frame
Accumulate(w, parsed) ==
  LET choices == Field(parsed, "choices", <<>>)
      choice == IF choices # <<>> THEN choices[1] ELSE [ none |-> TRUE ]
      delta == Field(choice, "delta", [ none |-> TRUE ])
      finish == Field(choice, "finish_reason", "")
      reasoningChunk == IF Field(delta, "reasoning", <<>>) # <<>>
                        THEN delta.reasoning
                        ELSE Field(delta, "reasoning_content", <<>>)
      contentChunk == Field(delta, "content", <<>>)
      tcs == Field(delta, "tool_calls", <<>>)
      hasTcs == "tool_calls" \in DOMAIN delta
      w1 == [ w EXCEPT !.o.finishLog = Append(@, finish),
                       !.h.finishReason = IF finish # "" THEN finish ELSE @ ]
      w2 == IF reasoningChunk # <<>>
            THEN [ w1 EXCEPT !.h.reasoning = @ \o reasoningChunk,
                             !.o.calls = Append(@, [ cb |-> "onThinking",
                                                     arg |-> reasoningChunk ]) ]
            ELSE w1
      w3 == IF contentChunk # <<>>
            THEN [ w2 EXCEPT !.h.content = @ \o contentChunk,
                             !.o.calls = Append(@, [ cb |-> "onChunk",
                                                     arg |-> contentChunk ]) ]
            ELSE w2
  IN  IF hasTcs
      THEN [ w3 EXCEPT !.h.toolCallsMap = MergeToolCalls(@, tcs),
                       !.o.tcLog = @ \o tcs,
                       !.o.calls = Append(@, [ cb |-> "onToolCalls",
                                               arg |-> tcs ]) ]
      ELSE w3

\* the throw of the provider error, rethrown by the catch; the finally block
\* releases the lock
Throw(w, message) ==
  [ w EXCEPT !.h.pc = "rejected", !.h.error = message, !.h.locked = FALSE ]

\* a catch block that logs every error
CaughtSwallowing(w, message) == [ w EXCEPT !.o.warned = @ + 1 ]

\* a catch block that rethrows every error
CaughtRethrowing(w, message) == Throw(w, message)

\* the catch block: the provider error is rethrown, anything else is logged
Caught(w, message) ==
  IF Head(message) = "Provider error: "
  THEN Throw(w, message)
  ELSE [ w EXCEPT !.o.warned = @ + 1 ]

\* the kind of a line, for the observers
Kind(line) ==
  LET data == Trim(SliceSix(line)) IN
  IF ~StartsWithData(line) THEN "other"
  ELSE IF data = << "[DONE]" >> THEN "done"
  ELSE IF data = <<>> THEN "empty"
  ELSE IF ~(Len(data) = 1 /\ data[1] \in JsonTexts) THEN "malformed"
  ELSE IF "error" \in DOMAIN Payload(data[1]) THEN "error"
  ELSE "frame"

\* the body of `for (const line of lines)` for one line
HandleLine(w, line) ==
  LET data == Trim(SliceSix(line))
      parsed == JSONparse(data)
      w0 == [ w EXCEPT !.o.kinds = Append(@, Kind(line)) ]
  IN  IF ~StartsWithData(line) THEN w0
      ELSE IF data = << "[DONE]" >> THEN w0
      ELSE IF data = <<>> THEN w0
      ELSE IF ~parsed.ok THEN Caught(w0, parsed.message)
      ELSE IF "error" \in DOMAIN parsed.value
        THEN Caught(w0, ProviderError(parsed.value.error))
      ELSE Accumulate(w0, parsed.value)

\* the loop moves to the next line, or back to reader.read()
NextLine(w) ==
  IF w.h.pc = "rejected" THEN w
  ELSE LET rest == Tail(w.h.lines) IN
       [ w EXCEPT !.h.lines = rest,
                  !.h.pc = IF rest = <<>> THEN "await_read" ELSE "lines" ]

\* a read that forgets the text left over from the read before
AfterReadForgetting(w, chunk) ==
  LET pieces == Split(chunk)
      lines == SubSeq(pieces, 1, Len(pieces) - 1)
  IN  [ w EXCEPT !.h.buffer = pieces[Len(pieces)],
                 !.h.lines = lines,
                 !.h.pc = IF lines = <<>> THEN "await_read" ELSE "lines" ]

\* reader.read() returns a chunk: up to the for loop
AfterRead(w, chunk) ==
  LET buf == w.h.buffer \o chunk
      pieces == Split(buf)
      lines == SubSeq(pieces, 1, Len(pieces) - 1)
  IN  [ w EXCEPT !.h.buffer = pieces[Len(pieces)],
                 !.h.lines = lines,
                 !.h.pc = IF lines = <<>> THEN "await_read" ELSE "lines" ]

\* Array.from(toolCallsMap.values())
MapValues(map) == [ p \in 1..Len(map) |-> map[p].call ]

\* reader.read() returns done: the finally block and the return
AfterDone(w) ==
  [ w EXCEPT !.h.pc = "resolved", !.h.locked = FALSE,
             !.h.result = [ content |-> w.h.content,
                            reasoning |-> w.h.reasoning,
                            toolCalls |-> MapValues(w.h.toolCallsMap),
                            finishReason |-> w.h.finishReason ] ]

SHere == SWorld(hs, sobs)

SApply(w) ==
  /\ hs' = w.h /\ sobs' = w.o
  /\ UNCHANGED << agentVars, toolVars, citeVars, claimVars, basisVars,
                  modeVars, scoreVars, runVars, excerptVars >>

\* a read delivers the rest of the line under way, or all of it and the
\* beginning (or the whole) of the next line
Read ==
  /\ hs.pc = "await_read"
  /\ \/ \E c \in 1..Len(net.pending) :
          /\ net' = [ net EXCEPT !.pending = SubSeq(@, c + 1, Len(@)) ]
          /\ SApply(AfterRead(SHere, SubSeq(net.pending, 1, c)))
     \/ /\ net.sent < MaxLines
        /\ \E line \in Lines :
             LET whole == Append(line, NL) IN
             \E c \in 1..Len(whole) :
               /\ net' = [ pending |-> SubSeq(whole, c + 1, Len(whole)),
                           sent |-> net.sent + 1 ]
               /\ SApply(AfterRead(SHere, net.pending \o SubSeq(whole, 1, c)))
  /\ UNCHANGED rd

\* the for loop handles the next complete line of the read
ProcessLine ==
  /\ hs.pc = "lines"
  /\ SApply(NextLine(HandleLine(SHere, Head(hs.lines))))
  /\ UNCHANGED << net, rd >>

\* the body ends (the provider closed it, whole or cut short)
ReadDone ==
  /\ hs.pc = "await_read"
  /\ SApply(AfterDone(SHere))
  /\ UNCHANGED << net, rd >>

\* reader.read() rejects
ReadFails ==
  /\ hs.pc = "await_read"
  /\ SApply(Throw(SHere, << "network error" >>))
  /\ UNCHANGED << net, rd >>

\* the lines of a recorded stream: a content frame, a tool-call frame, an
\* error frame, a truncated JSON text and a comment
ReadLines ==
  { Data("{c}"), Data("{t0a}"), Data("{e}"), Data("{\"choi"),
    << ": OPENROUTER PROCESSING" >> }

\* no read yet
NoReads == [ pending |-> <<>>, sent |-> 0, chunks |-> <<>> ]

\* a read of the recorded stream delivers the chunk
Recorded(chunk, pending, sent) ==
  /\ rd' = [ pending |-> pending, sent |-> sent,
             chunks |-> Append(rd.chunks, chunk) ]
  /\ hs' = AfterRead(SHere, chunk).h
  /\ sobs' = AfterRead(SHere, chunk).o
  /\ UNCHANGED << net, agentVars, toolVars, citeVars, claimVars, basisVars,
                  modeVars, scoreVars, runVars, excerptVars >>

\* a read of the recorded stream: like Read, any number of units, ending
\* inside a line, at its end or inside the next one
ReadChunk ==
  /\ hs.pc = "await_read"
  /\ \/ \E c \in 1..Len(rd.pending) :
          Recorded(SubSeq(rd.pending, 1, c),
                   SubSeq(rd.pending, c + 1, Len(rd.pending)), rd.sent)
     \/ /\ rd.sent < MaxReadLines
        /\ \E line \in ReadLines :
             LET whole == Append(line, NL) IN
             \E c \in 1..Len(whole) :
               Recorded(rd.pending \o SubSeq(whole, 1, c),
                        SubSeq(whole, c + 1, Len(whole)), rd.sent + 1)

(***************************************************************************)
(* executeToolCall and the source sink of the hook                         *)
(***************************************************************************)
\* JavaScript null
JSONnull == [ null |-> TRUE ]

UrlA == "https://a.example"

UrlB == "https://b.example"

\* the URLs tool calls and provider results name
Urls == { UrlA, UrlB }

\* the argument strings that are JSON, and the value JSON.parse returns
ArgsValue(args) ==
  CASE args = "{\"objective\":\"q\"}" -> [ objective |-> "q" ]
    [] args = "{\"urls\":[\"https://a.example\"]}" -> [ urls |-> << UrlA >> ]
    [] args = "{\"urls\":[\"https://a.example\",\"https://b.example\"]}" ->
         [ urls |-> << UrlA, UrlB >>, objective |-> "q" ]
    [] args = "{\"urls\":[\"https://b.example\",\"https://b.example\"]}" ->
         [ urls |-> << UrlB, UrlB >> ]
    [] args = "{\"max_results\":3}" -> [ max_results |-> 3 ]
    [] args = "null" -> JSONnull

JsonArgs ==
  { "{\"objective\":\"q\"}", "{\"urls\":[\"https://a.example\"]}",
    "{\"urls\":[\"https://a.example\",\"https://b.example\"]}",
    "{\"urls\":[\"https://b.example\",\"https://b.example\"]}",
    "{\"max_results\":3}", "null" }

\* the argument strings a model may send: JSON, or JSON cut short
ArgTexts == JsonArgs \cup { "{\"objective\":" }

\* JSON.parse(args): the value, or a SyntaxError
JSONparseArgs(args) ==
  IF args \in JsonArgs
  THEN [ ok |-> TRUE, value |-> ArgsValue(args) ]
  ELSE [ ok |-> FALSE ]

ToolNames == { "search_web", "extract_url", "lookup" }

\* tool calls as the model requests them
ToolCalls ==
  { [ function |-> [ name |-> n, arguments |-> a ] ] :
      n \in ToolNames, a \in ArgTexts }

\* one result of the search provider
SearchHit(u) == [ url |-> u, title |-> "Title of " \o u ]

\* one result of the extract provider
Extracted(u) == [ url |-> u, content |-> "Content of " \o u ]

\* result lists of at most two entries
UpToTwo(entries) ==
  { <<>> } \cup { << e >> : e \in entries }
  \cup { << e, f >> : e, f \in entries }

\* SearchResponse bodies
SearchResponses == { [ search_id |-> "s1", results |-> r ] : r \in UpToTwo({ SearchHit(u) : u \in Urls }) }

\* ExtractResponse bodies: the provider leaves out the URLs it could not extract
ExtractResponses == { [ results |-> r ] : r \in UpToTwo({ Extracted(u) : u \in Urls }) }

SEARCH_ERROR == "Parallel Search API error: 500 - upstream"

EXTRACT_ERROR == "Parallel Extract API error: 500 - upstream"

\* reading a property of null
TYPE_ERROR == "Cannot read properties of null"

\* reading a property of undefined
UNDEFINED_ERROR == "Cannot read properties of undefined"

\* the locals of executeToolCall before a call
NewTool ==
  [ pc |-> "idle", name |-> "", args |-> "", parsedArgs |-> JSONnull,
    error |-> "", result |-> JSONnull ]

NewToolObs ==
  [ requests |-> 0, reported |-> <<>>, sinceStart |-> <<>>, calls |-> 0 ]

TWorld(st, t, o) == [ state |-> st, tool |-> t, obs |-> o ]

\* onSourceAdded: (source) => dispatch({ type: 'SOURCE_ADDED', payload: source })
\* timestamp: Date.now() is the place of the report in the run
OnSourceAdded(w, source) ==
  LET s == [ url |-> source.url, title |-> source.title, type |-> source.type,
             timestamp |-> Len(w.obs.sinceStart) + 1 ]
  IN  [ w EXCEPT !.state = researchReducer(@, [ type |-> "SOURCE_ADDED",
                                                payload |-> s ]),
                 !.obs.reported = Append(@, s),
                 !.obs.sinceStart = Append(@, s) ]

\* an Error leaves executeToolCall
Raise(w, message) == [ w EXCEPT !.tool.pc = "threw", !.tool.error = message ]

\* fetch is called by searchWeb or extractUrls
Request(w, pc) == [ w EXCEPT !.tool.pc = pc, !.obs.requests = @ + 1 ]

\* forEach(... onSourceAdded(...)) over the sources in order
RECURSIVE ReportAll(_, _)
ReportAll(w, sources) ==
  IF sources = <<>> THEN w
  ELSE ReportAll(OnSourceAdded(w, Head(sources)), Tail(sources))

\* executeToolCall from its entry to its await
executeToolCall(w, toolCall) ==
  LET name == toolCall.function.name
      args == toolCall.function.arguments
      parsed == JSONparseArgs(args)
      w0 == [ w EXCEPT !.tool = [ NewTool EXCEPT !.name = name, !.args = args ],
                       !.obs.requests = 0, !.obs.reported = <<>>,
                       !.obs.calls = @ + 1 ]
  IN  IF ~parsed.ok
      THEN Raise(w0, "Failed to parse tool arguments: " \o args)
      ELSE LET w1 == [ w0 EXCEPT !.tool.parsedArgs = parsed.value ] IN
           IF name = "search_web"
           THEN IF parsed.value = JSONnull THEN Raise(w1, TYPE_ERROR)
                ELSE Request(w1, "await_search")
           ELSE IF name = "extract_url"
           THEN IF parsed.value = JSONnull THEN Raise(w1, TYPE_ERROR)
                ELSE Request(w1, "await_extract")
           ELSE Raise(w1, "Unknown tool: " \o name)

\* searchWeb has resolved: the sources, then the result for the model
AfterSearch(w, result) ==
  LET hits == result.results
      w1 == ReportAll(w, [ i \in 1..Len(hits) |->
                           [ url |-> hits[i].url, title |-> hits[i].title,
                             type |-> "search" ] ])
  IN  [ w1 EXCEPT !.tool.pc = "returned",
                  !.tool.result = [ search_id |-> result.search_id,
                                    results |-> hits ] ]

\* extractUrls has resolved: a source per requested URL, titled
\* result.results[index]?.url || url, then the result for the model
AfterExtract(w, result) ==
  IF "urls" \notin DOMAIN w.tool.parsedArgs THEN Raise(w, UNDEFINED_ERROR)
  ELSE
  LET urls == w.tool.parsedArgs.urls
      got == result.results
      w1 == ReportAll(w, [ i \in 1..Len(urls) |->
                           [ url |-> urls[i],
                             title |-> IF i <= Len(got) THEN got[i].url
                                       ELSE urls[i],
                             type |-> "extract" ] ])
  IN  [ w1 EXCEPT !.tool.pc = "returned", !.tool.result = [ results |-> got ] ]

THere == TWorld(tstate, tool, tobs)

TApply(w) ==
  /\ tstate' = w.state /\ tool' = w.tool /\ tobs' = w.obs
  /\ UNCHANGED << agentVars, streamVars, citeVars, claimVars, basisVars,
                  modeVars, scoreVars, runVars, excerptVars >>

\* no call of executeToolCall is suspended
Settled == tool.pc \in { "idle", "returned", "threw" }

\* submitQuery dispatches START: a run begins
BeginRun ==
  /\ Settled
  /\ TApply(TWorld(researchReducer(tstate, [ type |-> "START",
                                             payload |-> << "a" >> ]),
                   NewTool, NewToolObs))

\* the run executes the next tool call of the model
Invoke ==
  /\ tstate.status = "searching"
  /\ Settled
  /\ tobs.calls < MaxToolCalls
  /\ \E c \in ToolCalls : TApply(executeToolCall(THere, c))

SearchResolves ==
  /\ tool.pc = "await_search"
  /\ \E r \in SearchResponses : TApply(AfterSearch(THere, r))

SearchRejects ==
  /\ tool.pc = "await_search"
  /\ TApply(Raise(THere, SEARCH_ERROR))

ExtractResolves ==
  /\ tool.pc = "await_extract"
  /\ \E r \in ExtractResponses : TApply(AfterExtract(THere, r))

ExtractRejects ==
  /\ tool.pc = "await_extract"
  /\ TApply(Raise(THere, EXTRACT_ERROR))

(***************************************************************************)
(* stripCitations and stripCitationsKeepText                               *)
(*                                                                         *)
(* A text is a sequence of characters.  The texts of the model are made of *)
(* whole links and of the fragments links are made of.                     *)
(***************************************************************************)
\* [a](http://x)
HTTP_LINK ==
  << "[", "a", "]", "(", "h", "t", "t", "p", ":", "/", "/", "x", ")" >>

\* [bc](https://y)
HTTPS_LINK ==
  << "[", "b", "c", "]", "(", "h", "t", "t", "p", "s", ":", "/", "/", "y", ")" >>

\* [a](ftp://x)
FTP_LINK == << "[", "a", "]", "(", "f", "t", "p", ":", "/", "/", "x", ")" >>

\* [a](/r)
RELATIVE_LINK == << "[", "a", "]", "(", "/", "r", ")" >>

\* [a](http://x/(b)): parentheses in the path, as in many encyclopedia URLs
PAREN_LINK ==
  << "[", "a", "]", "(", "h", "t", "t", "p", ":", "/", "/", "x", "/",
     "(", "b", ")", ")" >>

\* [a], the text of a link without its destination
LINK_TEXT == << "[", "a", "]" >>

\* (http://x), the destination of a link without its text
DESTINATION == << "(", "h", "t", "t", "p", ":", "/", "/", "x", ")" >>

Pieces ==
  { HTTP_LINK, HTTPS_LINK, FTP_LINK, RELATIVE_LINK, PAREN_LINK,
    LINK_TEXT, DESTINATION,
    << "z" >>, << "[", "a" >>, << "]", "(" >>, << ")" >> }

\* the texts of at most n pieces
RECURSIVE TextsOf(_)
TextsOf(n) ==
  IF n = 0 THEN { <<>> }
  ELSE LET shorter == TextsOf(n - 1) IN
       shorter \cup { t \o p : t \in shorter, p \in Pieces }

Max(a, b) == IF a > b THEN a ELSE b

\* String.prototype.slice(from, to) for any integers: a negative offset
\* counts from the end, offsets are clamped to the string
StringSlice(s, from, to) ==
  LET clamp(x) == IF x < 0 THEN Max(Len(s) + x, 0) ELSE Min(x, Len(s))
  IN  SubSeq(s, clamp(from) + 1, clamp(to))

\* position (1-based) of the first c in s at or after from, 0 when there is none
IndexFrom(s, c, from) ==
  IF \E i \in from..Len(s) : s[i] = c
  THEN CHOOSE i \in from..Len(s) :
         s[i] = c /\ \A j \in from..(i - 1) : s[j] # c
  ELSE 0

\* MARKDOWN_LINK_REGEX tried at position i (1-based): \[ ([^\]]+) \] \( ([^)]+) \)
\* the text group runs to the first "]", the URL group to the first ")"
MatchAt(text, i) ==
  LET j == IndexFrom(text, "]", i + 1)
      k == IF j > 0 THEN IndexFrom(text, ")", j + 2) ELSE 0
  IN  IF /\ text[i] = "["
         /\ j > i + 1
         /\ j + 1 <= Len(text) /\ text[j + 1] = "("
         /\ k > j + 2
      THEN [ found |-> TRUE, index |-> i - 1, last |-> k,
             fullMatch |-> SubSeq(text, i, k),
             linkText |-> SubSeq(text, i + 1, j - 1),
             url |-> SubSeq(text, j + 2, k - 1) ]
      ELSE [ found |-> FALSE ]

\* text.matchAll(MARKDOWN_LINK_REGEX) from position i on: leftmost matches that
\* do not overlap; a match starts at a "[", so the scan goes from one to the
\* next
RECURSIVE MatchAll(_, _)
MatchAll(text, i) ==
  LET open == IndexFrom(text, "[", i) IN
  IF open = 0 THEN <<>>
  ELSE LET m == MatchAt(text, open) IN
       IF m.found THEN << m >> \o MatchAll(text, m.last + 1)
       ELSE MatchAll(text, open + 1)

StartsWith(s, prefix) ==
  Len(s) >= Len(prefix) /\ SubSeq(s, 1, Len(prefix)) = prefix

\* isCitationUrl: new URL(url) parses and its protocol is http: or https:
\* (of the URLs of the model, those with a scheme and a host parse)
isCitationUrl(url) ==
  \E scheme \in { << "h", "t", "t", "p" >>, << "h", "t", "t", "p", "s" >> } :
    /\ StartsWith(url, scheme \o << ":", "/", "/" >>)
    /\ Len(url) > Len(scheme) + 3

\* the first loop: the matches with a citation URL, numbered from 0
RECURSIVE Collect(_, _)
Collect(matches, citations) ==
  IF matches = <<>> THEN citations
  ELSE LET m == Head(matches) IN
       Collect(Tail(matches),
               IF isCitationUrl(m.url)
               THEN Append(citations,
                           [ index |-> Len(citations), url |-> m.url,
                             title |-> m.linkText, fullMatch |-> m.fullMatch,
                             position |-> m.index ])
               ELSE citations)

\* an offset that forgets the link text put back
OffsetStepWithoutTitle(citation, keepText) == Len(citation.fullMatch)

\* what an iteration adds to currentOffset
OffsetStep(citation, keepText) ==
  IF keepText THEN Len(citation.fullMatch) - Len(citation.title)
  ELSE Len(citation.fullMatch)

\* Map.prototype.set on a map kept as a sequence of entries in insertion order
MapSet(map, key, value) ==
  IF \E p \in 1..Len(map) : map[p].key = key
  THEN [ p \in 1..Len(map) |->
           IF map[p].key = key THEN [ key |-> key, value |-> value ]
           ELSE map[p] ]
  ELSE Append(map, [ key |-> key, value |-> value ])

\* the second loop from the citations left: r is strippedText, currentOffset
\* and positionMap so far
RECURSIVE StripLoop(_, _, _)
StripLoop(citations, r, keepText) ==
  IF citations = <<>> THEN r
  ELSE LET citation == Head(citations)
           originalPosition == citation.position
           adjustedPosition == originalPosition - r.currentOffset
           before == StringSlice(r.strippedText, 0, adjustedPosition)
           after == StringSlice(r.strippedText,
                                adjustedPosition + Len(citation.fullMatch),
                                Len(r.strippedText))
       IN  StripLoop(Tail(citations),
             [ strippedText |->
                 before \o (IF keepText THEN citation.title ELSE <<>>) \o after,
               currentOffset |->
                 r.currentOffset + OffsetStep(citation, keepText),
               positionMap |->
                 MapSet(r.positionMap, originalPosition, adjustedPosition) ],
             keepText)

\* both functions: they differ in what replaces a link
Strip(text, keepText) ==
  LET citations == Collect(MatchAll(text, 1), <<>>)
      r == StripLoop(citations,
                     [ strippedText |-> text, currentOffset |-> 0,
                       positionMap |-> <<>> ],
                     keepText)
  IN  [ strippedText |-> r.strippedText, citations |-> citations,
        positionMap |-> r.positionMap ]

stripCitations(text) == Strip(text, FALSE)

stripCitationsKeepText(text) == Strip(text, TRUE)

\* no call yet
NoCite == [ pc |-> "idle", keepText |-> FALSE, text |-> <<>>,
            result |-> JSONnull ]

CApply(c) ==
  /\ cite' = c
  /\ UNCHANGED << agentVars, streamVars, toolVars, claimVars, basisVars,
                  modeVars, scoreVars, runVars, excerptVars >>

\* stripCitations is called with a text
CallStripCitations ==
  /\ cite.pc = "idle"
  /\ \E text \in TextsOf(MaxPieces) :
    CApply([ pc |-> "returned", keepText |-> FALSE, text |-> text,
             result |-> stripCitations(text) ])

\* stripCitationsKeepText is called with a text
CallStripCitationsKeepText ==
  /\ cite.pc = "idle"
  /\ \E text \in TextsOf(MaxPieces) :
    CApply([ pc |-> "returned", keepText |-> TRUE, text |-> text,
             result |-> stripCitationsKeepText(text) ])

(***************************************************************************)
(* Claim validation and claim merging (claim-extractor.ts)                 *)
(*                                                                         *)
(* Texts are sequences of characters; the only white space in them is the  *)
(* blank and the only sentence end the full stop.                          *)
(***************************************************************************)
\* the stripped answers claims are validated against: "Ab  c.d" and ".a"
OriginalTexts ==
  { << "A", "b", " ", " ", "c", ".", "d" >>, << ".", "a" >> }

\* the characters of the claim texts an extractor may return
ClaimChars == { "A", "a", "b", " ", ".", "z" }

\* the texts of at most n characters
RECURSIVE StringsOf(_)
StringsOf(n) ==
  IF n = 0 THEN { <<>> }
  ELSE LET shorter == StringsOf(n - 1) IN
       shorter \cup { Append(s, c) : s \in shorter, c \in ClaimChars }

\* claim texts: short ones of every shape, and longer ones that occur in an
\* answer exactly ("c.d"), up to case and spacing ("ab c"), or in part
\* ("ab z z")
ClaimTexts ==
  StringsOf(MaxClaimText)
  \cup { << "c", ".", "d" >>, << "a", "b", " ", "c" >>,
         << "a", "b", " ", "z", " ", "z" >> }

\* String.prototype.toLowerCase
ToLowerCase(s) == [ i \in 1..Len(s) |-> IF s[i] = "A" THEN "a" ELSE s[i] ]

\* replace(/\s+/g, ' ')
RECURSIVE CollapseSpace(_)
CollapseSpace(s) ==
  IF s = <<>> THEN <<>>
  ELSE IF IsSpace(Head(s))
  THEN << " " >> \o CollapseSpace(TrimStart(s))
  ELSE << Head(s) >> \o CollapseSpace(Tail(s))

\* String.prototype.split on single characters: the pieces between them
RECURSIVE SplitBy(_, _)
SplitBy(s, seps) ==
  IF \E i \in 1..Len(s) : s[i] \in seps
  THEN LET i == CHOOSE i \in 1..Len(s) :
                  s[i] \in seps /\ \A j \in 1..(i - 1) : s[j] \notin seps
       IN  << SubSeq(s, 1, i - 1) >> \o SplitBy(SubSeq(s, i + 1, Len(s)), seps)
  ELSE << s >>

\* Array.prototype.join(' ')
RECURSIVE Join(_)
Join(words) ==
  IF words = <<>> THEN <<>>
  ELSE IF Len(words) = 1 THEN words[1]
  ELSE words[1] \o << " " >> \o Join(Tail(words))

\* String.prototype.indexOf(search): 0-based, -1 when absent
IndexOf(s, search) ==
  IF \E i \in 0..(Len(s) - Len(search)) : SubSeq(s, i + 1, i + Len(search)) = search
  THEN CHOOSE i \in 0..(Len(s) - Len(search)) :
         /\ SubSeq(s, i + 1, i + Len(search)) = search
         /\ \A j \in 0..(i - 1) : SubSeq(s, j + 1, j + Len(search)) # search
  ELSE -1

\* the characters a candidate extends beyond the search text
CANDIDATE_EXTRA == 50

\* the characters the actual text may extend beyond the search text
ACTUAL_EXTRA == 20

\* the words the search may drop from its end
DROPPED_WORDS == 2

\* the test of the inner loop of findFuzzyMatch at offset i: the match found
\* there, if any
FuzzyAt(text, searchText, searchSubstring, i) ==
  LET candidate ==
        StringSlice(text, i, i + Len(searchSubstring) + CANDIDATE_EXTRA)
      normalizedCandidate == CollapseSpace(ToLowerCase(candidate))
      endIndex == i + Min(Len(searchText) + ACTUAL_EXTRA, Len(candidate))
      actualText == SplitBy(StringSlice(text, i, endIndex), { ".", "!", "?" })[1]
  IN  IF /\ StartsWith(normalizedCandidate, searchSubstring)
         /\ Len(actualText) >= Len(searchSubstring)
      THEN [ found |-> TRUE, start |-> i, end |-> i + Len(actualText),
             text |-> actualText ]
      ELSE [ found |-> FALSE ]

\* the two loops of findFuzzyMatch from (windowSize, i) on
RECURSIVE FuzzyScan(_, _, _, _, _)
FuzzyScan(text, searchText, words, windowSize, i) ==
  LET minWords == Max(1, Len(words) - DROPPED_WORDS)
      searchSubstring == Join(SubSeq(words, 1, windowSize))
  IN  IF windowSize < minWords THEN [ found |-> FALSE ]
      ELSE IF i > Len(text) - Len(searchSubstring)
      THEN FuzzyScan(text, searchText, words, windowSize - 1, 0)
      ELSE LET m == FuzzyAt(text, searchText, searchSubstring, i) IN
           IF m.found THEN m
           ELSE FuzzyScan(text, searchText, words, windowSize, i + 1)

findFuzzyMatch(text, searchText) ==
  LET normalizedSearch == Trim(CollapseSpace(ToLowerCase(searchText)))
      words == SplitBy(normalizedSearch, { " " })
  IN  FuzzyScan(text, searchText, words, Len(words), 0)

\* `claim_${validClaims.length + 1}`
ClaimId(n) == "claim_" \o ToString(n)

\* the entries an extractor may return for an answer: a text with a range
\* from before the answer to beyond it
WellFormedEntries(originalText) ==
  { [ text |-> t, start |-> s, end |-> e ] :
      t \in ClaimTexts \ { <<>> }, s \in -1..4, e \in 0..(Len(originalText) + 1) }

\* entries of other shapes: null, no text, an empty text, no range, an id of
\* the extractor's own, an id of the form the prompt asks for, no id
OtherEntries ==
  { JSONnull,
    [ start |-> 0, end |-> 1 ],
    [ text |-> <<>>, start |-> 0, end |-> 1 ],
    [ text |-> << "A", "b" >> ],
    [ id |-> "c9", text |-> << "A", "b" >>, start |-> 0, end |-> 2 ],
    [ id |-> ClaimId(2), text |-> << "A", "b" >>, start |-> 0, end |-> 2 ],
    [ text |-> << "b" >>, start |-> 1, end |-> 2 ],
    [ text |-> << "z", "z" >>, start |-> 0, end |-> 2 ] }

\* the parsed responses validation may be given for an answer
ExtractionResults(originalText) ==
  { [ note |-> "no claims" ] }
  \cup { [ claims |-> << e >> ] : e \in WellFormedEntries(originalText) }
  \cup { [ claims |-> << e, f >> ] : e, f \in OtherEntries }

\* the body of the loop of validateClaimExtractionResult for one entry: it
\* throws, skips the entry (continue), or keeps a claim
ValidateEntry(claim, originalText) ==
  IF claim = JSONnull THEN [ kind |-> "throw" ]
  ELSE IF \/ "text" \notin DOMAIN claim \/ "start" \notin DOMAIN claim
          \/ "end" \notin DOMAIN claim
  THEN [ kind |-> "skip" ]
  ELSE IF claim.text = <<>> THEN [ kind |-> "skip" ]
  ELSE
  LET outside == \/ claim.start < 0 \/ claim.end > Len(originalText)
                 \/ claim.start >= claim.end
      foundIndex == IndexOf(originalText, claim.text)
      start == IF outside THEN foundIndex ELSE claim.start
      end == IF outside THEN foundIndex + Len(claim.text) ELSE claim.end
      extractedText == StringSlice(originalText, start, end)
      fuzzyMatch == findFuzzyMatch(originalText, claim.text)
  IN  IF outside /\ foundIndex = -1 THEN [ kind |-> "skip" ]
      ELSE IF extractedText = claim.text
      THEN [ kind |-> IF outside THEN "relocated" ELSE "accepted",
             text |-> claim.text, start |-> start, end |-> end ]
      ELSE IF foundIndex # -1
      THEN [ kind |-> "relocated", text |-> claim.text,
             start |-> foundIndex, end |-> foundIndex + Len(claim.text) ]
      ELSE IF fuzzyMatch.found
      THEN [ kind |-> "fuzzy", text |-> fuzzyMatch.text,
             start |-> fuzzyMatch.start, end |-> fuzzyMatch.end ]
      ELSE [ kind |-> "skip" ]

\* the loop from the entries left: r holds validClaims and, for the observer,
\* what became of every entry
RECURSIVE ValidateLoop(_, _, _)
ValidateLoop(entries, originalText, r) ==
  IF entries = <<>> THEN r
  ELSE LET claim == Head(entries)
           v == ValidateEntry(claim, originalText)
           r1 == [ r EXCEPT !.kinds = Append(@, v.kind) ]
       IN  IF v.kind = "throw"
           THEN [ r1 EXCEPT !.threw = TRUE ]
           ELSE IF v.kind = "skip"
           THEN ValidateLoop(Tail(entries), originalText, r1)
           ELSE ValidateLoop(Tail(entries), originalText,
                  [ r1 EXCEPT !.claims = Append(@,
                      [ id |-> Field(claim, "id", ClaimId(Len(r.claims) + 1)),
                        text |-> v.text,
                        range |-> [ start |-> v.start, end |-> v.end ] ]) ])

validateClaimExtractionResult(result, originalText) ==
  LET r0 == [ threw |-> FALSE, claims |-> <<>>, kinds |-> <<>> ] IN
  IF "claims" \notin DOMAIN result THEN r0
  ELSE ValidateLoop(result.claims, originalText, r0)

\* the distance up to which two claims are merged
MERGE_DISTANCE == 10

\* claims with ranges that overlap, touch, lie close and lie far apart, empty
\* ranges among them
MergeRanges ==
  { [ start |-> s, end |-> s + n ] : s \in { 0, 5, 25 }, n \in { 0, 5, 100 } }

\* claim lists of at most n claims, each with its own id and text
RECURSIVE ClaimLists(_)
ClaimLists(n) ==
  IF n = 0 THEN { <<>> }
  ELSE LET shorter == ClaimLists(n - 1) IN
       shorter \cup
       { Append(l, [ id |-> ClaimId(Len(l) + 1),
                     text |-> << "t", ToString(Len(l) + 1) >>,
                     range |-> r ]) :
           l \in { s \in shorter : Len(s) = n - 1 }, r \in MergeRanges }

\* [...claims].sort((a, b) => a.range.start - b.range.start): a stable sort
RECURSIVE SortByStart(_)
SortByStart(claims) ==
  IF claims = <<>> THEN <<>>
  ELSE LET front == SortByStart(SubSeq(claims, 1, Len(claims) - 1))
           last == claims[Len(claims)]
           before == SelectSeq(front, LAMBDA c : c.range.start <= last.range.start)
           after == SelectSeq(front, LAMBDA c : c.range.start > last.range.start)
       IN  before \o << last >> \o after

\* a merge test against the claim before, not against the merged claim
MergeTestPrevious(current, previous, next) ==
  next.range.start <= previous.range.end + MERGE_DISTANCE

\* next.range.start <= current.range.end + 10
MergeTest(current, previous, next) ==
  next.range.start <= current.range.end + MERGE_DISTANCE

\* the loop of mergeClaims from sorted[i] (1-based) on
RECURSIVE MergeLoop(_, _, _, _)
MergeLoop(sorted, i, current, merged) ==
  IF i > Len(sorted) THEN Append(merged, current)
  ELSE LET next == sorted[i] IN
       IF MergeTest(current, sorted[i - 1], next)
       THEN MergeLoop(sorted, i + 1,
              [ id |-> current.id, text |-> current.text,
                range |-> [ start |-> current.range.start,
                            end |-> Max(current.range.end, next.range.end) ] ],
              merged)
       ELSE MergeLoop(sorted, i + 1, next, Append(merged, current))

\* mergeClaims without its sort
mergeClaimsUnsorted(claims) ==
  IF Len(claims) <= 1 THEN claims
  ELSE MergeLoop(claims, 2, claims[1], <<>>)

mergeClaims(claims) ==
  IF Len(claims) <= 1 THEN claims
  ELSE LET sorted == SortByStart(claims) IN
       MergeLoop(sorted, 2, sorted[1], <<>>)

\* no call yet
NoClaimCall ==
  [ pc |-> "idle", fn |-> "", originalText |-> <<>>, input |-> JSONnull,
    result |-> JSONnull ]

XApply(c) ==
  /\ cl' = c
  /\ UNCHANGED << agentVars, streamVars, toolVars, citeVars, basisVars,
                  modeVars, scoreVars, runVars, excerptVars >>

\* extractClaims hands a parsed response to validateClaimExtractionResult
CallValidate ==
  /\ cl.pc = "idle"
  /\ \E originalText \in OriginalTexts :
       \E result \in ExtractionResults(originalText) :
         XApply([ pc |-> "returned", fn |-> "validateClaimExtractionResult",
                  originalText |-> originalText, input |-> result,
                  result |-> validateClaimExtractionResult(result, originalText) ])

\* mergeClaims is called with a claim list
CallMergeClaims ==
  /\ cl.pc = "idle"
  /\ \E claims \in ClaimLists(MaxClaims) :
       XApply([ pc |-> "returned", fn |-> "mergeClaims",
                originalText |-> <<>>, input |-> claims,
                result |-> mergeClaims(claims) ])

(***************************************************************************)
(* buildBasesForClaims, cut at its awaits                                  *)
(***************************************************************************)
\* const batchSize = 5
batchSize == 5

\* a property that is absent from an object
UNDEFINED == "undefined"

\* a || b for strings and undefined
OrElse(a, b) == IF a = UNDEFINED \/ a = "" THEN b ELSE a

\* the merged claims handed to the builder: n claims in the order of the text
BuilderClaims(n) ==
  [ i \in 1..n |->
      [ id |-> ClaimId(i), text |-> << "t", ToString(i) >>,
        range |-> [ start |-> 20 * (i - 1), end |-> 20 * (i - 1) + 5 ] ] ]

SourceA == [ url |-> UrlA, title |-> "A" ]

SourceB == [ url |-> UrlB, title |-> "B" ]

\* the sources discovered during research: none, or two
SourceLists == { <<>>, << SourceA, SourceB >> }

\* new URL(url).hostname.replace(/^www\./, ''), or url when it is not a URL
extractDomain(url) ==
  CASE url = UrlA -> "a.example"
    [] url = UrlB -> "b.example"
    [] OTHER -> url

\* `basis_${Date.now()}_${Math.random()...}`: the n-th id made by the call
generateBasisId(n) == "basis_" \o ToString(n)

FALLBACK_REASONING ==
  "Unable to analyze citation quality. Manual review recommended."

NO_REASONING == "No reasoning provided"

\* Array.prototype.find, given the elements that pass its test: the first of
\* them in a sequence of at most one element
FindSource(passing) ==
  IF passing = <<>> THEN <<>> ELSE << passing[1] >>

createFallbackBasis(claim, sources, id) ==
  LET first == SubSeq(sources, 1, Min(1, Len(sources)))
      fallbackSources ==
        [ j \in 1..Len(first) |->
            [ url |-> first[j].url, title |-> first[j].title,
              domain |-> extractDomain(first[j].url),
              startText |-> UNDEFINED, endText |-> UNDEFINED ] ]
  IN  [ id |-> id, claimText |-> claim.text, claimRange |-> claim.range,
        confidence |-> "low", reasoning |-> FALLBACK_REASONING,
        sources |-> fallbackSources ]

validateConfidence(confidence) ==
  IF confidence \in { "high", "medium", "low" } THEN confidence ELSE "low"

\* the SourcePosition made from one source of a single-claim result
ResultPosition(source, availableSources) ==
  LET url == Field(source, "url", UNDEFINED)
      title == Field(source, "title", UNDEFINED)
      matched == FindSource(SelectSeq(availableSources,
                              LAMBDA s : s.url = url \/ s.title = title))
      matchedTitle == IF matched = <<>> THEN UNDEFINED ELSE matched[1].title
  IN  [ url |-> url,
        title |-> OrElse(title, OrElse(matchedTitle, extractDomain(url))),
        domain |-> extractDomain(url),
        startText |-> Field(source, "startText", UNDEFINED),
        endText |-> Field(source, "endText", UNDEFINED) ]

\* the SourcePosition made from one supporting source of a batch analysis
AnalysisPosition(s, sources) ==
  LET url == Field(s, "url", UNDEFINED)
      matched == FindSource(SelectSeq(sources, LAMBDA src : src.url = url))
      matchedTitle == IF matched = <<>> THEN UNDEFINED ELSE matched[1].title
  IN  [ url |-> url,
        title |-> OrElse(matchedTitle, extractDomain(url)),
        domain |-> extractDomain(url),
        startText |-> Field(s, "startText", UNDEFINED),
        endText |-> Field(s, "endText", UNDEFINED) ]

\* .filter(s => s.url)
WithUrl(positions) == SelectSeq(positions, LAMBDA s : OrElse(s.url, "") # "")

\* createBasisFromResult: the Basis, or the TypeError of reading null
createBasisFromResult(claim, result, availableSources, id) ==
  IF result = JSONnull THEN [ ok |-> FALSE, message |-> TYPE_ERROR ]
  ELSE LET listed == Field(result, "sources", <<>>)
           sourcePositions ==
             WithUrl([ j \in 1..Len(listed) |->
                         ResultPosition(listed[j], availableSources) ])
       IN  [ ok |-> TRUE,
             basis |->
               [ id |-> id, claimText |-> claim.text,
                 claimRange |-> claim.range,
                 confidence |->
                   validateConfidence(Field(result, "confidence", UNDEFINED)),
                 reasoning |->
                   OrElse(Field(result, "reasoning", UNDEFINED), NO_REASONING),
                 sources |-> sourcePositions ] ]

(***************************************************************************)
(* The LLM behind the basis builder                                        *)
(***************************************************************************)
\* a supporting source the LLM names, with and without a URL
NamedSources ==
  << [ url |-> UrlA, startText |-> "from", endText |-> "to" ],
     [ title |-> "B" ] >>

\* the analysis of one claim in a batch response
Analysis(claim) ==
  [ claimId |-> claim.id, confidence |-> "high", reasoning |-> "because",
    supportingSources |-> NamedSources ]

\* an analysis without reasoning and with a confidence that is none of the
\* three levels
VagueAnalysis(claim) == [ claimId |-> claim.id, confidence |-> "certain" ]

RECURSIVE Reverse(_)
Reverse(s) == IF s = <<>> THEN <<>> ELSE Append(Reverse(Tail(s)), Head(s))

\* the message contents a batch request can be answered with
BatchContents ==
  { "", "not json", "null", "{}", "complete", "vague", "reversed", "none",
    "first twice", "without last", "unknown claim", "null analysis" }

\* JSON.parse(content) of a batch response for the claims of the batch
BatchValue(content, claims) ==
  LET all == [ j \in 1..Len(claims) |-> Analysis(claims[j]) ] IN
  CASE content = "null" -> JSONnull
    [] content = "{}" -> [ summary |-> "" ]
    [] content = "complete" -> [ analyses |-> all ]
    [] content = "vague" ->
         [ analyses |-> [ j \in 1..Len(claims) |-> VagueAnalysis(claims[j]) ] ]
    [] content = "reversed" -> [ analyses |-> Reverse(all) ]
    [] content = "none" -> [ analyses |-> <<>> ]
    [] content = "first twice" -> [ analyses |-> << all[1] >> \o all ]
    [] content = "without last" ->
         [ analyses |-> SubSeq(all, 1, Len(all) - 1) ]
    [] content = "unknown claim" ->
         [ analyses |-> << [ claimId |-> "claim_0", confidence |-> "high" ] >> ]
    [] content = "null analysis" -> [ analyses |-> << JSONnull >> ]

\* JSON.parse(content): the value, or a SyntaxError
JSONparseBatch(content, claims) ==
  IF content = "not json" THEN [ ok |-> FALSE ]
  ELSE [ ok |-> TRUE, value |-> BatchValue(content, claims) ]

\* the message contents a single-claim request can be answered with
SingleContents == { "", "not json", "null", "{}", "result" }

\* JSON.parse(content) of a single-claim response
SingleValue(content) ==
  CASE content = "null" -> JSONnull
    [] content = "{}" -> [ summary |-> "" ]
    [] content = "result" ->
         [ confidence |-> "medium", reasoning |-> "because",
           sources |-> NamedSources ]

JSONparseSingle(content) ==
  IF content = "not json" THEN [ ok |-> FALSE ]
  ELSE [ ok |-> TRUE, value |-> SingleValue(content) ]

\* what a fetch of the chat completions endpoint settles with: a rejection, a
\* status that is not ok, or a body whose first choice has the content
LLMResponses(contents) ==
  { [ settled |-> "rejected" ], [ settled |-> "resolved", ok |-> FALSE ] }
    \cup { [ settled |-> "resolved", ok |-> TRUE, content |-> c ] :
             c \in contents }

(***************************************************************************)
(* buildBasisBatch and buildBasisForClaim after their fetch has settled    *)
(***************************************************************************)
\* the loop of buildBasisBatch over parsed.analyses from position j on, with
\* made ids generated before the call
RECURSIVE BatchLoop(_, _, _, _, _, _)
BatchLoop(analyses, j, claims, sources, bases, made) ==
  IF j > Len(analyses) THEN [ ok |-> TRUE, bases |-> bases ]
  ELSE LET analysis == analyses[j] IN
       IF analysis = JSONnull
       THEN [ ok |-> FALSE, message |-> TYPE_ERROR, generated |-> Len(bases) ]
       ELSE LET found == SelectSeq(claims,
                           LAMBDA c : c.id = Field(analysis, "claimId", UNDEFINED))
            IN
            IF found = <<>>
            THEN BatchLoop(analyses, j + 1, claims, sources, bases, made)
            ELSE LET claim == found[1]
                     named == Field(analysis, "supportingSources", <<>>)
                     sourcePositions ==
                       WithUrl([ p \in 1..Len(named) |->
                                   AnalysisPosition(named[p], sources) ])
                     basis ==
                       [ id |-> generateBasisId(made + Len(bases) + 1),
                         claimText |-> claim.text,
                         claimRange |-> claim.range,
                         confidence |->
                           validateConfidence(
                             Field(analysis, "confidence", UNDEFINED)),
                         reasoning |->
                           OrElse(Field(analysis, "reasoning", UNDEFINED),
                                  NO_REASONING),
                         sources |-> sourcePositions ]
                 IN  BatchLoop(analyses, j + 1, claims, sources,
                               Append(bases, basis), made)

\* buildBasisBatch from the point where its fetch has settled: the Bases it
\* resolves to, or the error it rejects with
buildBasisBatch(claims, sources, response, made) ==
  IF response.settled = "rejected"
  THEN [ ok |-> FALSE, message |-> "Failed to fetch" ]
  ELSE IF ~response.ok
  THEN [ ok |-> FALSE, message |-> "Batch analysis failed: 500" ]
  ELSE IF response.content = ""
  THEN [ ok |-> FALSE, message |-> "No content in batch analysis response" ]
  ELSE LET parsed == JSONparseBatch(response.content, claims) IN
       IF ~parsed.ok THEN [ ok |-> FALSE, message |-> "SyntaxError" ]
       ELSE IF parsed.value = JSONnull
       THEN [ ok |-> FALSE, message |-> TYPE_ERROR ]
       ELSE IF "analyses" \notin DOMAIN parsed.value
       THEN [ ok |-> FALSE,
              message |-> "Invalid batch analysis response format" ]
       ELSE BatchLoop(parsed.value.analyses, 1, claims, sources, <<>>, made)

\* buildBasisForClaim from the point where its fetch has settled: the Basis it
\* resolves to, or the error it rejects with
buildBasisForClaim(claim, sources, response, made) ==
  IF response.settled = "rejected"
  THEN [ ok |-> FALSE, message |-> "Failed to fetch" ]
  ELSE IF ~response.ok
  THEN [ ok |-> FALSE, message |-> "Failed to build basis: 500 - " ]
  ELSE IF response.content = ""
  THEN [ ok |-> FALSE, message |-> "No content in basis building response" ]
  ELSE LET parsed == JSONparseSingle(response.content)
           built == IF parsed.ok
                    THEN createBasisFromResult(claim, parsed.value, sources,
                                               generateBasisId(made + 1))
                    ELSE [ ok |-> FALSE ]
       IN  IF built.ok THEN built
           ELSE [ ok |-> TRUE,
                  basis |-> createFallbackBasis(claim, sources,
                                                generateBasisId(made + 1)) ]

(***************************************************************************)
(* buildBasesForClaims                                                     *)
(***************************************************************************)
\* the locals of buildBasesForClaims before a call
NewBuilder ==
  [ pc |-> "idle", claims |-> <<>>, sources |-> <<>>, i |-> 0, k |-> 0,
    bases |-> <<>>, made |-> 0 ]

\* observers of a call: the LLM requests it has made and how each has settled
\* for the caller, the progress events and the Bases handed to its callbacks
NewBuilderObs ==
  [ requests |-> <<>>, outcomes |-> <<>>, progress |-> <<>>, created |-> <<>> ]

\* a world is the call and its observers together
BWorld(call, o) == [ bb |-> call, obs |-> o ]

\* the pending call has resolved or rejected
Settle(w, outcome) ==
  BWorld(w.bb, [ w.obs EXCEPT !.outcomes = Append(@, outcome) ])

\* claims.slice(i, Math.min(i + batchSize, claims.length)), i 0-based
BatchAt(claims, i) == SubSeq(claims, i + 1, Min(i + batchSize, Len(claims)))

\* bases.push(basis); if (onBasisCreated) onBasisCreated(basis)
PushBasis(w, basis) ==
  BWorld([ w.bb EXCEPT !.bases = Append(@, basis) ],
         [ w.obs EXCEPT !.created = Append(@, basis) ])

RECURSIVE PushAll(_, _)
PushAll(w, batchBases) ==
  IF batchBases = <<>> THEN w
  ELSE PushAll(PushBasis(w, Head(batchBases)), Tail(batchBases))

\* the head of the batch loop up to the fetch of buildBasisBatch, or the
\* return when no claim is left
BatchHead(w) ==
  LET c == w.bb
      n == Len(c.claims)
  IN  IF c.i < n
      THEN BWorld([ c EXCEPT !.pc = "await_batch" ],
                  [ w.obs EXCEPT
                      !.progress =
                        Append(@, [ phase |-> "researching",
                                    currentStep |-> c.i, totalSteps |-> n,
                                    message |->
                                      << "Analyzing citations ", c.i + 1, "-",
                                         Min(c.i + batchSize, n), " of ", n,
                                         "..." >> ]),
                      !.requests =
                        Append(@, [ kind |-> "batch",
                                    ids |-> [ j \in 1..Len(BatchAt(c.claims, c.i))
                                                |-> BatchAt(c.claims, c.i)[j].id ] ])
                  ])
      ELSE BWorld([ c EXCEPT !.pc = "resolved" ], w.obs)

\* the head of the fallback loop over the claims of the batch up to the fetch
\* of buildBasisForClaim, or the next turn of the batch loop
SingleHead(w) ==
  LET c == w.bb
      batch == BatchAt(c.claims, c.i)
  IN  IF c.k <= Len(batch)
      THEN BWorld([ c EXCEPT !.pc = "await_single" ],
                  [ w.obs EXCEPT
                      !.requests = Append(@, [ kind |-> "single",
                                               ids |-> << batch[c.k].id >> ]) ])
      ELSE BatchHead(BWorld([ c EXCEPT !.i = @ + batchSize, !.k = 0 ], w.obs))

\* buildBasisBatch has resolved to batchBases
AfterBatch(w, batchBases) ==
  LET pushed == PushAll(Settle(w, "resolved"), batchBases) IN
  BatchHead(BWorld([ pushed.bb EXCEPT !.i = @ + batchSize,
                                      !.made = @ + Len(batchBases) ],
                   pushed.obs))

\* buildBasisBatch has rejected: catch (e), then the first claim of the batch
AfterBatchFailure(w, generated) ==
  SingleHead(BWorld([ w.bb EXCEPT !.k = 1, !.made = @ + generated ],
                    Settle(w, "rejected").obs))

\* buildBasisForClaim has resolved to the basis
AfterSingle(w, basis) ==
  LET pushed == PushBasis(Settle(w, "resolved"), basis) IN
  SingleHead(BWorld([ pushed.bb EXCEPT !.k = @ + 1, !.made = @ + 1 ],
                    pushed.obs))

\* a catch (claimError) that drops the claim
AfterSingleFailureDropping(w, claim) ==
  SingleHead(BWorld([ w.bb EXCEPT !.k = @ + 1 ], Settle(w, "rejected").obs))

\* buildBasisForClaim has rejected: catch (claimError), a fallback basis
AfterSingleFailure(w, claim) ==
  LET fallback ==
        createFallbackBasis(claim, w.bb.sources,
                            generateBasisId(w.bb.made + 1))
      pushed == PushBasis(Settle(w, "rejected"), fallback)
  IN  SingleHead(BWorld([ pushed.bb EXCEPT !.k = @ + 1, !.made = @ + 1 ],
                        pushed.obs))

BHere == BWorld(bb, bbobs)

BApply(w) ==
  /\ bb' = w.bb
  /\ bbobs' = w.obs
  /\ UNCHANGED << agentVars, streamVars, toolVars, citeVars, claimVars,
                  modeVars, scoreVars, runVars, excerptVars >>

\* the claim the pending single-claim call of the call is made for
PendingClaim(call) == BatchAt(call.claims, call.i)[call.k]

\* what the pending batch call of the call settles with
BatchOutcomeOf(call, response) ==
  buildBasisBatch(BatchAt(call.claims, call.i), call.sources, response,
                  call.made)

\* what the pending single-claim call of the call settles with
SingleOutcomeOf(call, response) ==
  buildBasisForClaim(PendingClaim(call), call.sources, response, call.made)

BatchOutcome(response) == BatchOutcomeOf(bb, response)

SingleOutcome(response) == SingleOutcomeOf(bb, response)

\* runCitationMode calls buildBasesForClaims with the merged claims
CallBuildBases ==
  /\ bb.pc = "idle"
  /\ \E n \in 0..MaxBasisClaims, sources \in SourceLists :
       BApply(BatchHead(BWorld([ NewBuilder EXCEPT
                                   !.claims = BuilderClaims(n),
                                   !.sources = sources ],
                               NewBuilderObs)))

\* the batch call resolves
BatchResolves ==
  /\ bb.pc = "await_batch"
  /\ \E response \in LLMResponses(BatchContents) :
       /\ BatchOutcome(response).ok
       /\ BApply(AfterBatch(BHere, BatchOutcome(response).bases))

\* the batch call rejects
BatchRejects ==
  /\ bb.pc = "await_batch"
  /\ \E response \in LLMResponses(BatchContents) :
       /\ ~BatchOutcome(response).ok
       /\ BApply(AfterBatchFailure(BHere,
                   Field(BatchOutcome(response), "generated", 0)))

\* the call for one claim resolves
SingleResolves ==
  /\ bb.pc = "await_single"
  /\ \E response \in LLMResponses(SingleContents) :
       /\ SingleOutcome(response).ok
       /\ BApply(AfterSingle(BHere, SingleOutcome(response).basis))

\* the call for one claim rejects
SingleRejects ==
  /\ bb.pc = "await_single"
  /\ \E response \in LLMResponses(SingleContents) :
       /\ ~SingleOutcome(response).ok
       /\ BApply(AfterSingleFailure(BHere, PendingClaim(bb)))

(***************************************************************************)
(* The excerpt fetcher: fetchExcerpt, fetchExcerptsBatch and excerptCache  *)
(***************************************************************************)
concurrencyLimit == 3

\* claim texts: a short one, and two of 101 characters that differ in the last
ShortClaim == << "c" >>

LongClaimA == Text(100) \o << "a" >>

LongClaimB == Text(100) \o << "b" >>

\* the (source, claimText) pairs a caller asks excerpts for: two claims of one
\* source, a second source, and a claim with the first 100 characters of another
ExcerptPairs ==
  << [ source |-> SourceA, claimText |-> ShortClaim ],
     [ source |-> SourceA, claimText |-> LongClaimA ],
     [ source |-> SourceB, claimText |-> ShortClaim ],
     [ source |-> SourceA, claimText |-> LongClaimB ] >>

\* the same with the first pair given twice
RepeatedPairs ==
  << ExcerptPairs[1], ExcerptPairs[1], ExcerptPairs[2], ExcerptPairs[4] >>

\* the first n pairs of a pattern, taken round and round
PairList(pattern, n) ==
  [ i \in 1..n |-> pattern[((i - 1) % Len(pattern)) + 1] ]

\* `${sourceUrl}::${claimText.slice(0, 100)}`
getCacheKey(sourceUrl, claimText) ==
  << sourceUrl, StringSlice(claimText, 0, 100) >>

KeyOf(item) == getCacheKey(item.source.url, item.claimText)

\* what the extract request settles with: a rejection, a status that is not
\* ok, or a body
SourceBodies ==
  { [ results |-> <<>> ],
    [ results |-> << [ markdown |-> "page" ] >> ],
    [ results |-> << [ content |-> "page" ] >> ],
    [ results |-> << [ markdown |-> "", content |-> "" ] >> ] }

SourceResponses ==
  { [ settled |-> "rejected" ], [ settled |-> "resolved", ok |-> FALSE ] }
    \cup { [ settled |-> "resolved", ok |-> TRUE, data |-> b ] :
             b \in SourceBodies }

\* null, which `!content` treats as it treats the empty string
NoContent == ""

\* extractSourceContent once its fetch has settled: the text of the page or null
extractSourceContent(response) ==
  IF response.settled = "rejected" \/ ~response.ok THEN NoContent
  ELSE IF response.data.results = <<>> THEN NoContent
  ELSE LET first == response.data.results[1]
       IN  OrElse(Field(first, "markdown", UNDEFINED),
                  OrElse(Field(first, "content", UNDEFINED), NoContent))

UNABLE_TO_LOAD ==
  [ excerpt |-> "Unable to load content from source.", confidence |-> "low",
    note |-> "Content extraction failed" ]

NO_EXCERPT ==
  [ excerpt |-> "No relevant excerpt found.", confidence |-> "low" ]

PARSE_FAILED ==
  [ excerpt |-> "Failed to parse excerpt.", confidence |-> "low" ]

\* the catch block of fetchExcerpt
errorResult(message) ==
  [ excerpt |-> "Failed to load excerpt.", confidence |-> "low",
    note |-> message ]

\* the content of the LLM's message: none, text that is not JSON, and JSON
\* texts by name
ExcerptContents == { "", "not json", "null", "{}", "first" }

\* JSON.parse(responseContent)
ExcerptValue(content) ==
  CASE content = "null" -> JSONnull
    [] content = "{}" -> [ summary |-> "" ]
    [] content = "first" ->
         [ excerpt |-> "first passage", confidence |-> "high",
           note |-> "verbatim" ]

LLM_ERROR == "LLM API error: 500"

FETCH_ERROR == "Failed to fetch"

\* findRelevantExcerpt once its fetch has settled: a result, or a throw
findRelevantExcerpt(response) ==
  IF response.settled = "rejected"
  THEN [ threw |-> TRUE, message |-> FETCH_ERROR ]
  ELSE IF ~response.ok THEN [ threw |-> TRUE, message |-> LLM_ERROR ]
  ELSE IF response.content = "" THEN [ threw |-> FALSE, value |-> NO_EXCERPT ]
  ELSE IF response.content = "not json"
  THEN [ threw |-> FALSE, value |-> PARSE_FAILED ]
  ELSE LET parsed == ExcerptValue(response.content) IN
       IF parsed = JSONnull THEN [ threw |-> FALSE, value |-> PARSE_FAILED ]
       ELSE [ threw |-> FALSE,
              value |->
                [ excerpt |-> OrElse(Field(parsed, "excerpt", UNDEFINED),
                                     NO_EXCERPT.excerpt),
                  confidence |-> OrElse(Field(parsed, "confidence", UNDEFINED),
                                        "medium"),
                  note |-> Field(parsed, "note", UNDEFINED) ] ]

\* Map.prototype.set
MapSetKey(map, key, value) == (key :> value) @@ map

EmptyMap == << >>

\* a worker of fetchExcerptsBatch: an activation of processItem
NewWorker == [ pc |-> "new" ]

\* the module's cache, the locals of the call of fetchExcerptsBatch under way,
\* and how many pairs callers have handed in so far
NewExcerpts ==
  [ cache |-> EmptyMap, pc |-> "idle", queue |-> <<>>, results |-> EmptyMap,
    workers |-> <<>>, asked |-> 0 ]

\* what the last request to settle made its fetchExcerpt call do
NothingSettled == [ outcome |-> "none" ]

\* observers: requests sent by the call under way, the most fetchExcerpt
\* calls it has had unsettled at once, the last request settled, the list it
\* was called with, the pairs of the fetchExcerpt calls it has made and the
\* results they resolved to, in order, and since the cache was cleared: how
\* often each key was stored, and the keys whose entry was overwritten by a
\* different one
NewExcerptObs ==
  [ extractRequests |-> 0, llmRequests |-> 0, peak |-> 0,
    settled |-> NothingSettled, stored |-> EmptyMap, replaced |-> {},
    sources |-> <<>>, called |-> <<>>, returned |-> <<>>, last |-> "none" ]

\* the observers without the record of the call
Unlogged(o) ==
  [ o EXCEPT !.sources = <<>>, !.called = <<>>, !.returned = <<>> ]

\* micro: the workers whose continuation waits in the microtask queue
EWorld(e, o, micro) == [ ex |-> e, obs |-> o, micro |-> micro ]

\* the fetchExcerpt calls of the batch that have not settled
InFlight(e) ==
  Cardinality({ k \in 1..Len(e.workers) :
                  e.workers[k].pc \in { "await_extract", "await_llm" } })

\* fetchExcerpt resolves for worker k: processItem continues in a microtask
ResolveFetch(w, k, result) ==
  [ w EXCEPT !.ex.workers[k] = [ pc |-> "resume", item |-> @.item,
                                 result |-> result ],
             !.micro = Append(@, k) ]

\* fetchExcerpt without its look into the cache
fetchExcerptUncached(w, k, item) ==
  LET w1 == [ w EXCEPT !.obs.peak = Max(@, InFlight(w.ex) + 1),
                       !.obs.called = Append(@, item) ]
  IN  [ w1 EXCEPT !.ex.workers[k] = [ pc |-> "await_extract", item |-> item ],
                  !.obs.extractRequests = @ + 1 ]

\* fetchExcerpt up to its first await, called by worker k
fetchExcerpt(w, k, item) ==
  LET w1 == [ w EXCEPT !.obs.peak = Max(@, InFlight(w.ex) + 1),
                       !.obs.called = Append(@, item) ]
      cacheKey == KeyOf(item)
  IN  IF cacheKey \in DOMAIN w.ex.cache
      THEN ResolveFetch([ w1 EXCEPT !.ex.workers[k] = [ pc |-> "hit",
                                                        item |-> item ] ],
                        k, w.ex.cache[cacheKey])
      ELSE [ w1 EXCEPT !.ex.workers[k] = [ pc |-> "await_extract",
                                           item |-> item ],
                       !.obs.extractRequests = @ + 1 ]

\* a loop that takes one pair and drops the one behind it
processItemSkipping(w, k) ==
  IF w.ex.queue # <<>>
  THEN fetchExcerpt([ w EXCEPT !.ex.queue = IF Len(@) > 1 THEN Tail(Tail(@))
                                           ELSE Tail(@) ],
                    k, Head(w.ex.queue))
  ELSE [ w EXCEPT !.ex.workers[k] = [ pc |-> "done" ] ]

\* the head of processItem's loop for worker k, up to its await
processItem(w, k) ==
  IF w.ex.queue # <<>>
  THEN fetchExcerpt([ w EXCEPT !.ex.queue = Tail(@) ], k, Head(w.ex.queue))
  ELSE [ w EXCEPT !.ex.workers[k] = [ pc |-> "done" ] ]

\* processItem after its await: results.set(item.source.url, result), then
\* the next turn of the loop
AfterFetch(w, k) ==
  LET worker == w.ex.workers[k]
  IN  processItem([ w EXCEPT !.ex.results =
                      MapSetKey(@, worker.item.source.url, worker.result),
                             !.obs.returned =
                      Append(@, [ item |-> worker.item,
                                  result |-> worker.result ]) ],
                  k)

\* the microtask queue runs empty; Promise.all(workers) resolves once every
\* worker has returned
RECURSIVE Drain(_)
Drain(world) ==
  LET Run(w) ==
        IF w.micro # <<>>
        THEN Drain(AfterFetch([ w EXCEPT !.micro = Tail(@) ], Head(w.micro)))
        ELSE IF \A k \in 1..Len(w.ex.workers) : w.ex.workers[k].pc = "done"
        THEN [ w EXCEPT !.ex.pc = "resolved" ]
        ELSE w
  IN  CHOOSE after \in { Run(w) : w \in { world } } : TRUE

\* one worker per pair, however many there are
WorkerCountUnlimited(n) == n

\* Math.min(concurrencyLimit, sources.length)
WorkerCount(n) == Min(concurrencyLimit, n)

\* workers.map(() => processItem()): every worker runs to its first await
RECURSIVE StartWorkers(_, _)
StartWorkers(w, k) ==
  IF k > Len(w.ex.workers) THEN w
  ELSE StartWorkers(processItem(w, k), k + 1)

fetchExcerptsBatch(w, sources) ==
  LET e == [ w.ex EXCEPT !.pc = "running", !.queue = sources,
                         !.results = EmptyMap,
                         !.workers = [ k \in 1..WorkerCount(Len(sources)) |->
                                         NewWorker ],
                         !.asked = @ + Len(sources) ]
      o == [ w.obs EXCEPT !.extractRequests = 0, !.llmRequests = 0,
                          !.peak = 0, !.settled = NothingSettled,
                          !.sources = sources, !.called = <<>>,
                          !.returned = <<>> ]
  IN  Drain(StartWorkers(EWorld(e, o, <<>>), 1))

\* the fetchExcerpt call of worker k has resolved in the way named
Resolved(w, k, outcome, result) ==
  [ ResolveFetch(w, k, result) EXCEPT
      !.obs.settled = [ outcome |-> outcome, item |-> w.ex.workers[k].item,
                        result |-> result ] ]

\* the extract request of worker k settles
AfterSourceContent(w, k, response) ==
  LET content == extractSourceContent(response) IN
  IF content = NoContent
  THEN Drain(Resolved(w, k, "no content", UNABLE_TO_LOAD))
  ELSE [ w EXCEPT !.ex.workers[k].pc = "await_llm",
                  !.obs.llmRequests = @ + 1,
                  !.obs.settled = [ outcome |-> "content",
                                    item |-> w.ex.workers[k].item ] ]

\* excerptCache.set(cacheKey, result), and what it did to an earlier entry
CacheSet(w, cacheKey, result) ==
  [ w EXCEPT !.ex.cache = MapSetKey(@, cacheKey, result),
             !.obs.stored = MapSetKey(@, cacheKey, Field(@, cacheKey, 0) + 1),
             !.obs.replaced =
                IF cacheKey \in DOMAIN w.ex.cache
                   /\ w.ex.cache[cacheKey] # result
                THEN @ \cup { cacheKey } ELSE @ ]

\* a catch block that stores the error result under the key
AfterLLMFailureCaching(w, k, message) ==
  Drain(Resolved(CacheSet(w, KeyOf(w.ex.workers[k].item),
                          errorResult(message)),
                 k, "threw", errorResult(message)))

\* the catch block of fetchExcerpt
AfterLLMFailure(w, k, message) ==
  Drain(Resolved(w, k, "threw", errorResult(message)))

\* the LLM request of worker k settles
AfterLLM(w, k, response) ==
  LET found == findRelevantExcerpt(response) IN
  IF found.threw THEN AfterLLMFailure(w, k, found.message)
  ELSE Drain(Resolved(CacheSet(w, KeyOf(w.ex.workers[k].item), found.value),
                      k, "found", found.value))

EHere == EWorld(ex, exobs, <<>>)

\* the step of the named action leads to world w
EApply(name, w) ==
  /\ ex' = w.ex /\ exobs' = [ Unlogged(w.obs) EXCEPT !.last = name ]
  /\ UNCHANGED << agentVars, streamVars, toolVars, citeVars, claimVars,
                  basisVars, modeVars, scoreVars, runVars >>

\* the same, with the record of the call kept
LApply(name, world) ==
  /\ \E w \in { world } :
       ex' = w.ex /\ exobs' = [ w.obs EXCEPT !.last = name ]
  /\ UNCHANGED << agentVars, streamVars, toolVars, citeVars, claimVars,
                  basisVars, modeVars, scoreVars, runVars >>

\* a caller asks for the excerpts of a list of pairs
CallFetchExcerptsBatch ==
  /\ ex.pc \in { "idle", "resolved" }
  /\ \E pattern \in { ExcerptPairs, RepeatedPairs } :
       \E n \in 0..(MaxPairs - ex.asked) :
         EApply("CallFetchExcerptsBatch",
                fetchExcerptsBatch(EHere, PairList(pattern, n)))

ExtractSettles ==
  /\ ex.pc = "running"
  /\ \E k \in 1..Len(ex.workers) :
       /\ ex.workers[k].pc = "await_extract"
       /\ \E response \in SourceResponses :
            EApply("ExtractSettles", AfterSourceContent(EHere, k, response))

LLMSettles ==
  /\ ex.pc = "running"
  /\ \E k \in 1..Len(ex.workers) :
       /\ ex.workers[k].pc = "await_llm"
       /\ \E response \in LLMResponses(ExcerptContents) :
            EApply("LLMSettles", AfterLLM(EHere, k, response))

\* clearExcerptCache
ClearExcerptCache ==
  /\ ex.cache # EmptyMap
  /\ EApply("ClearExcerptCache",
            [ EHere EXCEPT !.ex.cache = EmptyMap,
                           !.obs.stored = EmptyMap,
                           !.obs.replaced = {} ])

\* the lists of the first call: two claims of one source, the first pair
\* again, a second source
FirstBatchPairs ==
  << [ source |-> SourceA, claimText |-> ShortClaim ],
     [ source |-> SourceA, claimText |-> << "d" >> ],
     [ source |-> SourceA, claimText |-> ShortClaim ],
     [ source |-> SourceB, claimText |-> ShortClaim ] >>

\* what the requests of the first call settle with: the extract request with
\* a rejection or a page, the LLM request with a rejection or an excerpt
FirstBatchSourceResponses ==
  { r \in SourceResponses :
      \/ r.settled = "rejected"
      \/ r.settled = "resolved" /\ r.ok
           /\ r.data = [ results |-> << [ markdown |-> "page" ] >> ] }

FirstBatchLLMResponses ==
  { r \in LLMResponses(ExcerptContents) :
      \/ r.settled = "rejected"
      \/ r.settled = "resolved" /\ r.ok /\ r.content = "first" }

\* the first call of fetchExcerptsBatch, on the empty cache, with its record
FirstBatch ==
  /\ ex.pc = "idle"
  /\ \E n \in 0..MaxPairs :
       LApply("FirstBatch",
              fetchExcerptsBatch(EHere, PairList(FirstBatchPairs, n)))

\* an extract request of the first call settles
FirstBatchExtractSettles ==
  /\ ex.pc = "running"
  /\ \E k \in 1..Len(ex.workers) :
       /\ ex.workers[k].pc = "await_extract"
       /\ \E response \in FirstBatchSourceResponses :
            LApply("FirstBatchExtractSettles",
                   AfterSourceContent(EHere, k, response))

\* an LLM request of the first call settles
FirstBatchLLMSettles ==
  /\ ex.pc = "running"
  /\ \E k \in 1..Len(ex.workers) :
       /\ ex.workers[k].pc = "await_llm"
       /\ \E response \in FirstBatchLLMResponses :
            LApply("FirstBatchLLMSettles", AfterLLM(EHere, k, response))

InitExcerpt == ex = NewExcerpts /\ exobs = NewExcerptObs

(***************************************************************************)
(* citationModeReducer                                                     *)
(***************************************************************************)
\* { ...r, f: v }
Spread(r, f, v) ==
  [ x \in DOMAIN r \cup { f } |-> IF x = f THEN v ELSE r[x] ]

\* initialCitationModeState (the stripped text is a sequence of characters,
\* as the strippers return it)
InitialCitationModeState ==
  [ isEnabled |-> FALSE, isProcessing |-> FALSE, originalResponse |-> "",
    originalCitations |-> <<>>, strippedResponse |-> <<>>, bases |-> <<>>,
    progress |-> [ phase |-> "idle", currentStep |-> 0, totalSteps |-> 0,
                   message |-> << >> ],
    error |-> UNDEFINED ]

\* [...bases].sort((a, b) => a.claimRange.start - b.claimRange.start): a
\* stable sort
RECURSIVE sortBasesByPosition(_)
sortBasesByPosition(bases) ==
  IF bases = <<>> THEN <<>>
  ELSE LET front == sortBasesByPosition(SubSeq(bases, 1, Len(bases) - 1))
           last == bases[Len(bases)]
           before == SelectSeq(front,
                       LAMBDA b : b.claimRange.start <= last.claimRange.start)
           after == SelectSeq(front,
                      LAMBDA b : b.claimRange.start > last.claimRange.start)
       IN  before \o << last >> \o after

\* state.bases.map(b => b.id === id ? change(b) : b), given the changed Bases
MapBases(bases, id, changed) ==
  [ j \in 1..Len(bases) |-> IF bases[j].id = id THEN changed[j] ELSE bases[j] ]

\* b.sources.map(s => s.url === sourceUrl ? change(s) : s), given the changed
\* sources
MapSources(sources, sourceUrl, changed) ==
  [ j \in 1..Len(sources) |->
      IF sources[j].url = sourceUrl THEN changed[j] ELSE sources[j] ]

\* { ...s, excerpt: action.payload.excerpt, isLoading: false }
WithExcerpt(s, excerpt) ==
  Spread(Spread(s, "excerpt", excerpt), "isLoading", FALSE)

citationModeReducer(st, action) ==
  CASE action.type = "ENABLE" -> [ st EXCEPT !.isEnabled = TRUE ]
    [] action.type = "DISABLE" -> [ st EXCEPT !.isEnabled = FALSE ]
    [] action.type = "START_PROCESSING" ->
         [ st EXCEPT !.isProcessing = TRUE,
                     !.originalResponse = action.payload.response,
                     !.bases = <<>>, !.error = UNDEFINED,
                     !.progress =
                       [ phase |-> "stripping", currentStep |-> 0,
                         totalSteps |-> 4,
                         message |-> << "Starting citation analysis..." >> ] ]
    [] action.type = "UPDATE_PROGRESS" ->
         [ st EXCEPT !.progress = action.payload ]
    [] action.type = "CITATIONS_STRIPPED" ->
         [ st EXCEPT !.strippedResponse = action.payload.stripped,
                     !.originalCitations = action.payload.citations ]
    [] action.type = "BASIS_CREATED" ->
         [ st EXCEPT !.bases = Append(@, action.payload) ]
    [] action.type = "PROCESSING_COMPLETE" ->
         [ st EXCEPT !.isProcessing = FALSE,
                     !.bases = sortBasesByPosition(action.payload.bases),
                     !.progress =
                       [ phase |-> "complete", currentStep |-> 4,
                         totalSteps |-> 4,
                         message |-> << "Enhanced ",
                                        Len(action.payload.bases),
                                        " citations" >> ] ]
    [] action.type = "PROCESSING_ERROR" ->
         [ st EXCEPT !.isProcessing = FALSE, !.error = action.payload,
                     !.progress = [ @ EXCEPT !.phase = "error",
                                             !.message = << action.payload >> ] ]
    [] action.type = "TOGGLE_BASIS_EXPANDED" ->
         [ st EXCEPT !.bases =
             MapBases(st.bases, action.payload,
               [ j \in 1..Len(st.bases) |->
                   Spread(st.bases[j], "isExpanded",
                          ~Field(st.bases[j], "isExpanded", FALSE)) ]) ]
    [] action.type = "REMOVE_BASIS" ->
         [ st EXCEPT !.bases =
             MapBases(st.bases, action.payload,
               [ j \in 1..Len(st.bases) |->
                   Spread(st.bases[j], "isRemoved", TRUE) ]) ]
    [] action.type = "UPDATE_BASIS_EXCERPT" ->
         LET payload == action.payload
             changed ==
               [ j \in 1..Len(st.bases) |->
                   LET sources == st.bases[j].sources IN
                   [ st.bases[j] EXCEPT !.sources =
                       MapSources(sources, payload.sourceUrl,
                         [ p \in 1..Len(sources) |->
                             WithExcerpt(sources[p], payload.excerpt) ]) ] ]
         IN  [ st EXCEPT !.bases = MapBases(st.bases, payload.basisId, changed) ]
    [] action.type = "SET_SOURCE_LOADING" ->
         LET payload == action.payload
             changed ==
               [ j \in 1..Len(st.bases) |->
                   LET sources == st.bases[j].sources IN
                   [ st.bases[j] EXCEPT !.sources =
                       MapSources(sources, payload.sourceUrl,
                         [ p \in 1..Len(sources) |->
                             Spread(sources[p], "isLoading",
                                    payload.loading) ]) ] ]
         IN  [ st EXCEPT !.bases = MapBases(st.bases, payload.basisId, changed) ]
    [] action.type = "RESET" -> InitialCitationModeState
    [] OTHER -> st

(***************************************************************************)
(* reanalyzeBasis                                                          *)
(***************************************************************************)
\* a pseudo-claim whose text is the id of the basis
PseudoClaimOfId(basis) ==
  [ id |-> basis.id, text |-> << basis.id >>, range |-> basis.claimRange ]

\* the pseudo-claim made from the basis
PseudoClaim(basis) ==
  [ id |-> basis.id, text |-> basis.claimText, range |-> basis.claimRange ]

\* reanalyzeBasis from the point where the fetch of buildBasisForClaim has
\* settled: the Basis it resolves to, or the error it rejects with
reanalyzeBasis(basis, sources, response, made) ==
  LET claim == PseudoClaim(basis)
      filteredSources ==
        SelectSeq(sources,
          LAMBDA s : ~\E j \in 1..Len(basis.sources) : basis.sources[j].url = s.url)
      sourcesToUse == IF Len(filteredSources) > 0 THEN filteredSources ELSE sources
  IN  buildBasisForClaim(claim, sourcesToUse, response, made)

(***************************************************************************)
(* useCitationMode                                                         *)
(***************************************************************************)
\* the activation of analyze: where it is suspended, the locals of its call
\* of buildBasesForClaims, the runs started, what runCitationMode returned
NoAnalysis ==
  [ pc |-> "idle", call |-> NewBuilder, runs |-> 0, result |-> JSONnull ]

\* the text of the response analyze is called with: a letter and a citation
HookResponse == << "z" >> \o HTTP_LINK

\* the ids made before those of the run: a run of n claims makes at most
\* n + 1 (one batch response may analyse a claim twice)
MadeBefore(runs) == (runs - 1) * (MaxBases + 1)

\* the sources analyze is called with
HookSources == << SourceA, SourceB >>

\* no call of reanalyzeBasis yet
NoReanalysis == [ pc |-> "idle" ]

\* what binds a Basis to its claim
ClaimBinding(basis) ==
  [ claimText |-> basis.claimText, claimRange |-> basis.claimRange ]

\* observers of the hook: the excerpt fetches in flight, the last call of
\* reanalyzeBasis, the number of things the user has done
NewModeObs == [ pending |-> {}, re |-> NoReanalysis, user |-> 0 ]

MWorld(st, a, o) == [ state |-> st, an |-> a, obs |-> o ]

\* dispatch(action)
MDispatch(w, action) ==
  [ w EXCEPT !.state = citationModeReducer(w.state, action) ]

Progress(phase, currentStep, totalSteps, message) ==
  [ type |-> "UPDATE_PROGRESS",
    payload |-> [ phase |-> phase, currentStep |-> currentStep,
                  totalSteps |-> totalSteps, message |-> message ] ]

ProcessingError(message) == [ type |-> "PROCESSING_ERROR", payload |-> message ]

MISSING_ERROR == "Missing response or API key"

EXTRACTION_ERROR == "Failed to extract claims: 500 - "

\* analyze up to its first await: the guard, START_PROCESSING and
\* runCitationMode up to the await of extractClaims
analyze(w, present) ==
  IF ~present THEN MDispatch(w, ProcessingError(MISSING_ERROR))
  ELSE LET started ==
             MDispatch(w, [ type |-> "START_PROCESSING",
                            payload |-> [ response |-> "response" ] ])
           stripping ==
             MDispatch(started,
                       Progress("stripping", 0, 4,
                                << "Analyzing existing citations..." >>))
           analyzing ==
             MDispatch(stripping,
                       Progress("analyzing", 1, 4,
                                << "Identifying factual claims..." >>))
       IN  [ analyzing EXCEPT !.an.pc = "await_claims",
                              !.an.call = NewBuilder, !.an.runs = @ + 1,
                              !.an.result = JSONnull ]

\* runCitationMode and analyze once buildBasesForClaims has resolved
AfterBuild(w) ==
  LET bases == w.an.call.bases
      stripped == stripCitationsKeepText(HookResponse)
      result == [ originalResponse |-> "response",
                  strippedResponse |-> stripped.strippedText,
                  originalCitations |-> stripped.citations,
                  bases |-> bases ]
      complete ==
        MDispatch(w, Progress("complete", 4, 4,
                              << "Enhanced ", Len(bases), " citations" >>))
      done ==
        MDispatch(complete, [ type |-> "PROCESSING_COMPLETE",
                              payload |-> [ bases |-> result.bases ] ])
  IN  [ done EXCEPT !.an.pc = "idle", !.an.result = result ]

\* onBasisCreated: dispatch({ type: 'BASIS_CREATED', payload: basis }), for
\* the Bases in the order created
RECURSIVE onBasisCreated(_, _)
onBasisCreated(w, created) ==
  IF created = <<>> THEN w
  ELSE onBasisCreated(MDispatch(w, [ type |-> "BASIS_CREATED",
                                     payload |-> Head(created) ]),
                      Tail(created))

\* onProgress: dispatch({ type: 'UPDATE_PROGRESS', payload: progress }), for
\* the events in the order reported
RECURSIVE onProgress(_, _)
onProgress(w, reported) ==
  IF reported = <<>> THEN w
  ELSE onProgress(MDispatch(w, [ type |-> "UPDATE_PROGRESS",
                                 payload |-> Head(reported) ]),
                  Tail(reported))

\* buildBasesForClaims has run from one await to the next, or to its return:
\* its callbacks are made (Bases first, the progress of the next batch after
\* them), and runCitationMode goes on when it has returned
AfterBuilderStep(w, b) ==
  LET called == onProgress(onBasisCreated(w, b.obs.created), b.obs.progress)
      kept == [ called EXCEPT !.an.call = b.bb ]
  IN  IF b.bb.pc = "resolved" THEN AfterBuild(kept)
      ELSE [ kept EXCEPT !.an.pc = "building" ]

\* extractClaims has resolved to claims that filter and merge into n claims:
\* up to the first await of buildBasesForClaims, or to the end without claims
AfterClaims(w, n) ==
  LET found ==
        MDispatch(w, Progress("analyzing", 2, 4,
                              << "Found ", n, " claims to verify..." >>))
      call == [ NewBuilder EXCEPT !.claims = BuilderClaims(n),
                                  !.sources = HookSources,
                                  !.made = MadeBefore(w.an.runs) ]
  IN  AfterBuilderStep(found, BatchHead(BWorld(call, NewBuilderObs)))

\* extractClaims has rejected: onError, then the catch block of analyze
AfterClaimsFailure(w, message) ==
  LET reported == MDispatch(w, ProcessingError(message))
      caught == MDispatch(reported, ProcessingError(message))
  IN  [ caught EXCEPT !.an.pc = "idle" ]

\* the builder of the run as it stands, with observers that have seen nothing
Builder(w) == BWorld(w.an.call, NewBuilderObs)

\* the ids of the Bases on display
BasisIds(bases) == { bases[j].id : j \in 1..Len(bases) }

\* the (basis, source) pairs on display
SourcePairs(bases) ==
  UNION { { [ basisId |-> bases[j].id, sourceUrl |-> bases[j].sources[p].url ] :
              p \in 1..Len(bases[j].sources) } : j \in 1..Len(bases) }

\* basis?.sources.find(s => s.url === sourceUrl) of loadExcerpt, in a sequence
\* of at most one element
FindPair(bases, pair) ==
  LET basis == FindSource(SelectSeq(bases, LAMBDA b : b.id = pair.basisId)) IN
  IF basis = <<>> THEN <<>>
  ELSE FindSource(SelectSeq(basis[1].sources,
                            LAMBDA s : s.url = pair.sourceUrl))

\* !source || source.excerpt || source.isLoading
AlreadyLoaded(found) ==
  \/ found = <<>>
  \/ OrElse(Field(found[1], "excerpt", UNDEFINED), "") # ""
  \/ Field(found[1], "isLoading", FALSE)

\* loadExcerpt up to the await of fetchExcerpt
loadExcerpt(w, pair) ==
  IF AlreadyLoaded(FindPair(w.state.bases, pair)) THEN w
  ELSE LET loading ==
             MDispatch(w, [ type |-> "SET_SOURCE_LOADING",
                            payload |-> [ basisId |-> pair.basisId,
                                          sourceUrl |-> pair.sourceUrl,
                                          loading |-> TRUE ] ])
       IN  [ loading EXCEPT !.obs.pending = @ \cup { pair } ]

FAILED_EXCERPT == "Failed to load excerpt"

\* the excerpts a failed load leaves: those of the results fetchExcerpt
\* resolves to when it has failed, and that of the catch block of loadExcerpt
FailedExcerpts ==
  { UNABLE_TO_LOAD.excerpt, errorResult(LLM_ERROR).excerpt, FAILED_EXCERPT }

\* fetchExcerpt has settled: the excerpt of the result, or the catch block
AfterExcerpt(w, pair, excerpt) ==
  LET updated ==
        MDispatch(w, [ type |-> "UPDATE_BASIS_EXCERPT",
                       payload |-> [ basisId |-> pair.basisId,
                                     sourceUrl |-> pair.sourceUrl,
                                     excerpt |-> excerpt ] ])
  IN  [ updated EXCEPT !.obs.pending = @ \ { pair } ]

MHere == MWorld(cm, an, cmobs)

\* the user acts on the page
ByUser == MWorld(cm, an, [ cmobs EXCEPT !.user = @ + 1 ])

\* the page still takes input
Attended == cmobs.user < MaxUserActions

MApply(w) ==
  /\ cm' = w.state
  /\ an' = w.an
  /\ cmobs' = w.obs
  /\ UNCHANGED << agentVars, streamVars, toolVars, citeVars, claimVars,
                  basisVars, scoreVars, runVars, excerptVars >>

\* the user switches citation mode on
Enable ==
  /\ ~cm.isEnabled
  /\ MApply(MDispatch(MHere, [ type |-> "ENABLE" ]))

\* the user switches citation mode off
Disable ==
  /\ cm.isEnabled
  /\ MApply(MDispatch(MHere, [ type |-> "DISABLE" ]))

\* the user resets citation mode
ResetMode ==
  /\ Attended
  /\ cm # InitialCitationModeState
  /\ MApply(MDispatch(ByUser, [ type |-> "RESET" ]))

\* the user asks for an analysis of the response
Analyze ==
  /\ an.pc = "idle"
  /\ an.runs < MaxRuns
  /\ \E present \in BOOLEAN : MApply(analyze(MHere, present))

\* the claim extraction of the run resolves
ClaimsResolve ==
  /\ an.pc = "await_claims"
  /\ \E n \in 0..MaxBases : MApply(AfterClaims(MHere, n))

\* the claim extraction of the run rejects
ClaimsReject ==
  /\ an.pc = "await_claims"
  /\ MApply(AfterClaimsFailure(MHere, EXTRACTION_ERROR))

\* the batch call of the run resolves
RunBatchResolves ==
  /\ an.pc = "building" /\ an.call.pc = "await_batch"
  /\ \E response \in LLMResponses(BatchContents) :
       /\ BatchOutcomeOf(an.call, response).ok
       /\ MApply(AfterBuilderStep(MHere,
                   AfterBatch(Builder(MHere),
                              BatchOutcomeOf(an.call, response).bases)))

\* the batch call of the run rejects
RunBatchRejects ==
  /\ an.pc = "building" /\ an.call.pc = "await_batch"
  /\ \E response \in LLMResponses(BatchContents) :
       /\ ~BatchOutcomeOf(an.call, response).ok
       /\ MApply(AfterBuilderStep(MHere,
                   AfterBatchFailure(Builder(MHere),
                     Field(BatchOutcomeOf(an.call, response), "generated", 0))))

\* the call of the run for one claim resolves
RunSingleResolves ==
  /\ an.pc = "building" /\ an.call.pc = "await_single"
  /\ \E response \in LLMResponses(SingleContents) :
       /\ SingleOutcomeOf(an.call, response).ok
       /\ MApply(AfterBuilderStep(MHere,
                   AfterSingle(Builder(MHere),
                               SingleOutcomeOf(an.call, response).basis)))

\* the call of the run for one claim rejects
RunSingleRejects ==
  /\ an.pc = "building" /\ an.call.pc = "await_single"
  /\ \E response \in LLMResponses(SingleContents) :
       /\ ~SingleOutcomeOf(an.call, response).ok
       /\ MApply(AfterBuilderStep(MHere,
                   AfterSingleFailure(Builder(MHere), PendingClaim(an.call))))

\* the user expands or collapses a Basis
ToggleBasisExpanded ==
  /\ Attended
  /\ cm.bases # <<>>
  /\ \E id \in BasisIds(cm.bases) :
       MApply(MDispatch(ByUser, [ type |-> "TOGGLE_BASIS_EXPANDED",
                                 payload |-> id ]))

\* the user removes a Basis
RemoveBasis ==
  /\ Attended
  /\ cm.bases # <<>>
  /\ \E id \in BasisIds(cm.bases) :
       MApply(MDispatch(ByUser, [ type |-> "REMOVE_BASIS", payload |-> id ]))

\* the user opens a source of a Basis
LoadExcerpt ==
  /\ Attended
  /\ cm.bases # <<>>
  /\ \E pair \in SourcePairs(cm.bases) :
       /\ ~AlreadyLoaded(FindPair(cm.bases, pair))
       /\ MApply(loadExcerpt(ByUser, pair))

\* a fetch of an excerpt settles
ExcerptSettles ==
  /\ cmobs.pending # {}
  /\ \E pair \in cmobs.pending, excerpt \in { "excerpt" } \cup FailedExcerpts :
       MApply(AfterExcerpt(MHere, pair, excerpt))

\* reanalyzeBasis is called for a Basis on display and settles
Reanalyze ==
  /\ Attended
  /\ cm.bases # <<>>
  /\ \E j \in 1..Len(cm.bases), sources \in SourceLists,
        response \in LLMResponses(SingleContents) :
       LET outcome == reanalyzeBasis(cm.bases[j], sources, response,
                                     MadeBefore(MaxRuns + 1))
       IN  MApply([ ByUser EXCEPT !.obs.re =
                      [ pc |-> IF outcome.ok THEN "resolved" ELSE "rejected",
                        basis |-> ClaimBinding(cm.bases[j]),
                        result |-> IF outcome.ok
                                   THEN ClaimBinding(outcome.basis)
                                   ELSE JSONnull ] ])

InitAgent ==
  state = InitialState /\ run = NoRun /\ obs = NewObs /\ ov = NewOverlap

InitStream ==
  net = NewNet /\ hs = NewStream /\ sobs = NewStreamObs /\ rd = NoReads

InitTool == tstate = InitialState /\ tool = NewTool /\ tobs = NewToolObs

InitCite == cite = NoCite

InitClaims == cl = NoClaimCall

InitBasis == bb = NewBuilder /\ bbobs = NewBuilderObs

InitMode ==
  cm = InitialCitationModeState /\ an = NoAnalysis /\ cmobs = NewModeObs

(***************************************************************************)
(* runCitationMode, cut at its awaits                                      *)
(*                                                                         *)
(* The answer is a link, then sentences, then a number and a rule of       *)
(* dashes; the extractor's claims are slices of the stripped answer.       *)
(***************************************************************************)
minLength == 10

Blanks(n) == [ i \in 1..n |-> " " ]

\* a sentence of 13 characters
Sentence(i) ==
  << "F", "a", "c", "t", " ", ToString(i), " ", "h", "o", "l", "d", "s", "." >>

NUMBER == << "0", "1", "2", "3", "4", "5", "6", "7", "8", "9" >>

DASHES == [ i \in 1..10 |-> "-" ]

\* n sentences, each more than 10 characters after the one before, or the
\* second one blank after the first
RECURSIVE Sentences(_, _)
Sentences(n, near) ==
  IF n = 0 THEN <<>>
  ELSE Sentences(n - 1, near)
         \o Blanks(IF near /\ n = 2 THEN 1 ELSE MERGE_DISTANCE + 1)
         \o Sentence(n)

\* the answer of the research run
Answer(n, near) ==
  HTTP_LINK \o Sentences(n, near) \o Blanks(MERGE_DISTANCE + 1) \o NUMBER
    \o Blanks(MERGE_DISTANCE + 1) \o DASHES

\* the entry of an extractor that quotes the piece and its place exactly
Quoted(text, piece) ==
  [ text |-> piece, start |-> IndexOf(text, piece),
    end |-> IndexOf(text, piece) + Len(piece) ]

\* the sentences of the text, in its order
SentencesIn(text) ==
  LET n == Cardinality({ i \in 1..MaxSentences :
                           IndexOf(text, Sentence(i)) >= 0 })
  IN  [ i \in 1..n |-> Quoted(text, Sentence(i)) ]

\* the content of the extractor's message: none, text that is not JSON, and
\* JSON texts by name
ExtractionContents ==
  { "", "not json", "null entry", "{}", "sentences", "short", "digits",
    "dashes" }

\* JSON.parse(content) of the extractor's message about the text
ClaimsValue(content, text) ==
  CASE content = "null entry" -> [ claims |-> << JSONnull >> ]
    [] content = "{}" -> [ summary |-> "" ]
    [] content = "sentences" -> [ claims |-> SentencesIn(text) ]
    [] content = "short" ->
         [ claims |-> << Quoted(text, SubSeq(Sentence(1), 1, minLength - 1)) >>
                        \o SubSeq(SentencesIn(text), 2,
                                  Len(SentencesIn(text))) ]
    [] content = "digits" -> [ claims |-> << Quoted(text, NUMBER) >> ]
    [] content = "dashes" ->
         [ claims |-> SentencesIn(text) \o << Quoted(text, DASHES) >> ]

NO_CONTENT_ERROR == "No content in claim extraction response"

PARSE_ERROR == "Failed to parse claim extraction response"

\* extractClaims once its fetch has settled: the validated claims, or a throw
extractClaims(response, responseText) ==
  IF response.settled = "rejected"
  THEN [ ok |-> FALSE, message |-> FETCH_ERROR ]
  ELSE IF ~response.ok THEN [ ok |-> FALSE, message |-> EXTRACTION_ERROR ]
  ELSE IF response.content = ""
  THEN [ ok |-> FALSE, message |-> NO_CONTENT_ERROR ]
  ELSE IF response.content = "not json"
  THEN [ ok |-> FALSE, message |-> PARSE_ERROR ]
  ELSE LET validated ==
             validateClaimExtractionResult(
               ClaimsValue(response.content, responseText), responseText)
       IN  IF validated.threw THEN [ ok |-> FALSE, message |-> PARSE_ERROR ]
           ELSE [ ok |-> TRUE, claims |-> validated.claims ]

\* /\w/
IsWordChar(c) ==
  c \in { "F", "a", "c", "t", "h", "o", "l", "d", "s", "x", "p", "_" }
    \cup { NUMBER[i] : i \in 1..Len(NUMBER) }

\* /\d/
IsDigit(c) == c \in { NUMBER[i] : i \in 1..Len(NUMBER) }

\* the test of filterClaims: at least minLength characters, a word character
\* among them, not digits only
FilterTest(claim) ==
  /\ Len(claim.text) >= minLength
  /\ \E i \in 1..Len(claim.text) : IsWordChar(claim.text[i])
  /\ ~ ( /\ Trim(claim.text) # <<>>
         /\ \A i \in 1..Len(Trim(claim.text)) : IsDigit(Trim(claim.text)[i]) )

filterClaims(claims) == SelectSeq(claims, FilterTest)

\* sources.map(s => ({ url: s.url, title: s.title }))
SourceInfos(sources) ==
  [ j \in 1..Len(sources) |->
      [ url |-> sources[j].url, title |-> sources[j].title ] ]

\* the locals of runCitationMode before a call; b is its call of
\* buildBasesForClaims
NoCitationRun ==
  [ pc |-> "idle", response |-> <<>>, strippedText |-> <<>>,
    citations |-> <<>>, mergedClaims |-> <<>>, b |-> NewBuilder,
    result |-> JSONnull ]

\* observers of a call: those of its builder (LLM requests, progress events,
\* Bases created), the extraction requests and builder calls made, the
\* messages handed to onError and how extractClaims settled
NewRunObs ==
  [ requests |-> <<>>, outcomes |-> <<>>, progress |-> <<>>, created |-> <<>>,
    extractions |-> 0, builds |-> 0, errors |-> <<>>, extraction |-> "none" ]

RWorld(r, o) == [ rc |-> r, obs |-> o ]

\* onProgress(event)
Reported(w, event) == [ w EXCEPT !.obs.progress = Append(@, event.payload) ]

\* runCitationMode up to the await of extractClaims
runCitationMode(w, response) ==
  LET stripping ==
        Reported(w, Progress("stripping", 0, 4,
                             << "Analyzing existing citations..." >>))
      stripped == stripCitationsKeepText(response)
      analyzing ==
        Reported(stripping, Progress("analyzing", 1, 4,
                                     << "Identifying factual claims..." >>))
  IN  [ analyzing EXCEPT !.rc.pc = "await_claims",
                         !.rc.response = response,
                         !.rc.strippedText = stripped.strippedText,
                         !.rc.citations = stripped.citations,
                         !.obs.extractions = @ + 1 ]

\* buildBasesForClaims has run to its next await, or it has returned: then
\* the last progress event and the result
AfterBuilding(w, b) ==
  LET kept == RWorld([ w.rc EXCEPT !.b = b.bb ], b.obs) IN
  IF b.bb.pc # "resolved" THEN [ kept EXCEPT !.rc.pc = "building" ]
  ELSE LET bases == b.bb.bases
           complete ==
             Reported(kept, Progress("complete", 4, 4,
                                     << "Enhanced ", Len(bases),
                                        " citations" >>))
       IN  [ complete EXCEPT
               !.rc.pc = "resolved",
               !.rc.result = [ originalResponse |-> w.rc.response,
                               strippedResponse |-> w.rc.strippedText,
                               originalCitations |-> w.rc.citations,
                               bases |-> bases ] ]

\* the catch block: onError(error.message || 'Citation mode failed'); throw
RunCatch(w, message) ==
  [ w EXCEPT !.rc.pc = "rejected",
             !.obs.errors = Append(@, OrElse(message, "Citation mode failed")) ]

\* a failed extraction taken for an extraction without claims
AfterExtractionFailureIgnored(w, message) ==
  AfterBuilding(w, BatchHead(BWorld([ NewBuilder EXCEPT !.sources =
                                        SourceInfos(HookSources) ],
                                    [ w.obs EXCEPT !.builds = @ + 1 ])))

\* extractClaims has rejected
AfterExtractionFailure(w, message) == RunCatch(w, message)

\* extractClaims has settled: the claims are filtered and merged and handed to
\* buildBasesForClaims, which runs to its first await
AfterExtraction(w, outcome) ==
  IF ~outcome.ok
  THEN AfterExtractionFailure([ w EXCEPT !.obs.extraction = "rejected" ],
                              outcome.message)
  ELSE LET filteredClaims == filterClaims(outcome.claims)
           mergedClaims == mergeClaims(filteredClaims)
           found ==
             Reported([ w EXCEPT !.obs.extraction = "resolved",
                                 !.rc.mergedClaims = mergedClaims ],
                      Progress("analyzing", 2, 4,
                               << "Found ", Len(mergedClaims),
                                  " claims to verify..." >>))
           call == [ NewBuilder EXCEPT !.claims = mergedClaims,
                                       !.sources = SourceInfos(HookSources) ]
       IN  AfterBuilding(found,
                         BatchHead(BWorld(call, [ found.obs EXCEPT
                                                    !.builds = @ + 1 ])))

RHere == RWorld(rc, rcobs)

\* the builder of the run and the observers they share
RBuilder == BWorld(rc.b, rcobs)

RApply(w) ==
  /\ rc' = w.rc /\ rcobs' = w.obs
  /\ UNCHANGED << agentVars, streamVars, toolVars, citeVars, claimVars,
                  basisVars, modeVars, scoreVars, excerptVars >>

\* analyze calls runCitationMode with the answer of the research run
CallRunCitationMode ==
  /\ rc.pc = "idle"
  /\ \E n \in 0..MaxSentences, near \in BOOLEAN :
       RApply(runCitationMode(RWorld(NoCitationRun, NewRunObs),
                              Answer(n, near)))

\* the fetch of extractClaims settles
ExtractionSettles ==
  /\ rc.pc = "await_claims"
  /\ \E response \in LLMResponses(ExtractionContents) :
       RApply(AfterExtraction(RHere, extractClaims(response, rc.strippedText)))

\* the batch call of the run's builder resolves
BuildBatchResolves ==
  /\ rc.pc = "building" /\ rc.b.pc = "await_batch"
  /\ \E response \in LLMResponses(BatchContents) :
       /\ BatchOutcomeOf(rc.b, response).ok
       /\ RApply(AfterBuilding(RHere,
                   AfterBatch(RBuilder, BatchOutcomeOf(rc.b, response).bases)))

\* the batch call of the run's builder rejects
BuildBatchRejects ==
  /\ rc.pc = "building" /\ rc.b.pc = "await_batch"
  /\ \E response \in LLMResponses(BatchContents) :
       /\ ~BatchOutcomeOf(rc.b, response).ok
       /\ RApply(AfterBuilding(RHere,
                   AfterBatchFailure(RBuilder,
                     Field(BatchOutcomeOf(rc.b, response), "generated", 0))))

\* the single-claim call of the run's builder resolves
BuildSingleResolves ==
  /\ rc.pc = "building" /\ rc.b.pc = "await_single"
  /\ \E response \in LLMResponses(SingleContents) :
       /\ SingleOutcomeOf(rc.b, response).ok
       /\ RApply(AfterBuilding(RHere,
                   AfterSingle(RBuilder, SingleOutcomeOf(rc.b, response).basis)))

\* the single-claim call of the run's builder rejects
BuildSingleRejects ==
  /\ rc.pc = "building" /\ rc.b.pc = "await_single"
  /\ \E response \in LLMResponses(SingleContents) :
       /\ ~SingleOutcomeOf(rc.b, response).ok
       /\ RApply(AfterBuilding(RHere,
                   AfterSingleFailure(RBuilder, PendingClaim(rc.b))))

InitRun == rc = NoCitationRun /\ rcobs = NewRunObs

(***************************************************************************)
(* calculateOverallConfidence                                              *)
(***************************************************************************)
Confidences == { "high", "medium", "low" }

\* a Basis as far as scoring reads it
ScoredBasis(i, confidence) ==
  [ id |-> generateBasisId(i), confidence |-> confidence ]

\* the lists of n Bases, one per assignment of confidences
ScoredLists(n) ==
  { [ i \in 1..n |-> ScoredBasis(i, f[i]) ] : f \in [ 1..n -> Confidences ] }

\* for (const basis of bases) distribution[basis.confidence]++
Distribution(bases) ==
  [ c \in Confidences |->
      Cardinality({ i \in 1..Len(bases) : bases[i].confidence = c }) ]

\* the weights with those of high and low exchanged
totalScoreLowFirst(distribution) ==
  distribution.high * 20 + distribution.medium * 60 + distribution.low * 100

totalScore(distribution) ==
  distribution.high * 100 + distribution.medium * 60 + distribution.low * 20

\* Math.round(a / n) for a >= 0 and n > 0: the nearest integer, halves upwards
MathRound(a, n) == (2 * a + n) \div (2 * n)

calculateOverallConfidence(bases) ==
  IF Len(bases) = 0
  THEN [ score |-> 0, distribution |-> [ c \in Confidences |-> 0 ] ]
  ELSE LET distribution == Distribution(bases)
       IN  [ score |-> MathRound(totalScore(distribution), Len(bases)),
             distribution |-> distribution ]

NoScore == [ pc |-> "idle" ]

\* the step of the scoring call
ScApply(call) ==
  /\ sc' = call
  /\ UNCHANGED << agentVars, streamVars, toolVars, citeVars, claimVars,
                  basisVars, modeVars, runVars, excerptVars >>

\* calculateOverallConfidence is called with a list of Bases
CallCalculateOverallConfidence ==
  /\ sc.pc \in { "idle", "returned" }
  /\ \E n \in 0..MaxScored : \E bases \in ScoredLists(n) :
       ScApply([ pc |-> "returned", bases |-> bases,
                 result |-> calculateOverallConfidence(bases) ])

InitScore == sc = NoScore

Init ==
  /\ InitAgent /\ InitStream /\ InitTool /\ InitCite /\ InitClaims
  /\ InitBasis /\ InitMode /\ InitScore /\ InitRun /\ InitExcerpt

Next ==
  \/ Submit
  \/ Retry
  \/ Reset
  \/ ChatResolves
  \/ ChatRejects
  \/ ToolSettles
  \/ TimerFires
  \/ StreamDelta
  \/ StreamResolves
  \/ StreamRejects

\* the hook and its orchestration run
Spec == Init /\ [][Next]_vars

NextStream ==
  \/ Read
  \/ ProcessLine
  \/ ReadDone
  \/ ReadFails

\* one streaming call of the client
SpecStream == Init /\ [][NextStream]_vars

NextTool ==
  \/ BeginRun
  \/ Invoke
  \/ SearchResolves
  \/ SearchRejects
  \/ ExtractResolves
  \/ ExtractRejects

\* the tool calls of one run and the sources they report to the hook
SpecTool == Init /\ [][NextTool]_vars

NextCite ==
  \/ CallStripCitations
  \/ CallStripCitationsKeepText

\* calls of the two citation strippers
SpecCite == Init /\ [][NextCite]_vars

NextClaims ==
  \/ CallValidate
  \/ CallMergeClaims

\* calls of claim validation and of claim merging
SpecClaims == Init /\ [][NextClaims]_vars

NextBasis ==
  \/ CallBuildBases
  \/ BatchResolves
  \/ BatchRejects
  \/ SingleResolves
  \/ SingleRejects

\* one call of buildBasesForClaims
SpecBasis == Init /\ [][NextBasis]_vars

NextMode ==
  \/ Enable
  \/ Disable
  \/ ResetMode
  \/ Analyze
  \/ ClaimsResolve
  \/ ClaimsReject
  \/ RunBatchResolves
  \/ RunBatchRejects
  \/ RunSingleResolves
  \/ RunSingleRejects
  \/ ToggleBasisExpanded
  \/ RemoveBasis
  \/ LoadExcerpt
  \/ ExcerptSettles
  \/ Reanalyze

\* the citation-mode hook, its analysis and the user
SpecMode == Init /\ [][NextMode]_vars

NextScore == CallCalculateOverallConfidence

\* calls of the confidence score
SpecScore == Init /\ [][NextScore]_vars

NextRun ==
  \/ CallRunCitationMode
  \/ ExtractionSettles
  \/ BuildBatchResolves
  \/ BuildBatchRejects
  \/ BuildSingleResolves
  \/ BuildSingleRejects

\* one call of runCitationMode
SpecRun == Init /\ [][NextRun]_vars

NextExcerpt ==
  \/ CallFetchExcerptsBatch
  \/ ExtractSettles
  \/ LLMSettles
  \/ ClearExcerptCache

\* batches of excerpt fetches over the module's cache
SpecExcerpt == Init /\ [][NextExcerpt]_vars

NextBatch ==
  \/ FirstBatch
  \/ FirstBatchExtractSettles
  \/ FirstBatchLLMSettles

\* one call of fetchExcerptsBatch whose requests all settle in the end
SpecBatch ==
  /\ Init /\ [][NextBatch]_vars
  /\ WF_vars(FirstBatchExtractSettles) /\ WF_vars(FirstBatchLLMSettles)

NextOverlap ==
  \/ OverlapSubmit
  \/ OverlapChatResolves
  \/ OverlapChatRejects
  \/ OverlapToolSettles
  \/ OverlapTimerFires
  \/ OverlapStreamDelta
  \/ OverlapStreamResolves

\* the hook with submitQuery called at any time
SpecOverlap == Init /\ [][NextOverlap]_vars

NextCeiling ==
  \/ SubmitWithKeys
  \/ ToolTurnArrives
  \/ ToolSettles
  \/ TimerFires
  \/ StreamDelta
  \/ StreamResolves

\* runs in which every turn requests tools and every call returns
SpecCeiling ==
  /\ Init /\ [][NextCeiling]_vars
  /\ WF_vars(ToolTurnArrives) /\ WF_vars(ToolSettles)
  /\ WF_vars(TimerFires) /\ WF_vars(StreamResolves)

NextReads ==
  \/ ReadChunk
  \/ ProcessLine
  \/ ReadDone
  \/ ReadFails

\* one streaming call of the client whose reads are recorded
SpecReads == Init /\ [][NextReads]_vars

(***************************************************************************)
(* Properties of the orchestration run and the hook (Spec)                 *)
(***************************************************************************)
\* the tool messages at the end of the history: those of the turn under way
ToolTail(msgs) ==
  LET n == Len(msgs)
      from == CHOOSE i \in 1..(n + 1) :
                /\ \A j \in i..n : msgs[j].role = "tool"
                /\ i = 1 \/ msgs[i - 1].role # "tool"
  IN  SubSeq(msgs, from, n)

\* how many of the first p - 1 events are of the kind
CountBefore(ev, p, kind) ==
  Cardinality({ q \in 1..(p - 1) : ev[q].kind = kind })

RECURSIVE Flatten(_)
Flatten(chunks) ==
  IF chunks = <<>> THEN <<>> ELSE Head(chunks) \o Flatten(Tail(chunks))

\* C1: the tool calls of a turn are executed one at a time in the order of the
\* tool_calls array: call k+1 is dispatched only after the tool message of
\* call k has been appended to the history, and the tool messages of the turn
\* carry the ids of the requested calls in the same order.
C1_ToolCallsRunInOrder ==
  LET tail == ToolTail(run.messages)
      ev == obs.turnEvents
  IN  /\ Len(tail) <= Len(run.toolCalls)
      /\ \A j \in 1..Len(tail) : tail[j].tool_call_id = run.toolCalls[j].id
      /\ \A p \in 1..Len(ev) :
           /\ ev[p].kind = "dispatch" =>
                /\ ev[p].call = CountBefore(ev, p, "dispatch") + 1
                /\ CountBefore(ev, p, "message") = ev[p].call - 1
           /\ ev[p].kind = "message" =>
                ev[p].call = CountBefore(ev, p, "message") + 1
      /\ run.pc = "await_tool" =>
           CountBefore(ev, Len(ev) + 1, "dispatch") = Len(tail) + 1

\* a turn of two calls with different ids has been executed to its end
C1_Witness ==
  /\ run.pc = "await_chat"
  /\ Len(run.toolCalls) = 2
  /\ run.toolCalls[1].id # run.toolCalls[2].id
  /\ Len(ToolTail(run.messages)) = 2

\* the step in which executeToolCall throws
ThrowStep == run.pc = "await_tool" /\ obs'.last = "ToolThrows"

\* what every throw leads to: the error message in the history, the 'error'
\* notification, no failure of the run, and the next call of the turn
ThrowIsHandled ==
  LET k == run.tcIdx
      o == obs'.outcomes[Len(obs'.outcomes)]
  IN  /\ run'.messages =
           Append(run.messages,
                  [ role |-> "tool", tool_call_id |-> run.toolCalls[k].id,
                    content |-> [ json |-> [ error |-> o.message ] ] ])
      /\ \E p \in 1..Len(obs'.turnEvents) :
           /\ p > Len(obs.turnEvents)
           /\ obs'.turnEvents[p] = [ kind |-> "error", call |-> k ]
      /\ run'.pc # "rejected"
      /\ state'.status # "error"
      /\ k < Len(run.toolCalls) =>
           /\ run'.pc = "await_tool"
           /\ run'.tcIdx = k + 1
           /\ obs'.toolRequests = obs.toolRequests + 1

\* C2 as stated: after a throw the remaining calls are executed and the next
\* chat request (non-streaming or streaming) is issued.
C2_Original ==
  [][ThrowStep =>
       /\ ThrowIsHandled
       /\ run.tcIdx = Len(run.toolCalls) =>
            obs'.chatRequests + obs'.streamRequests
              = obs.chatRequests + obs.streamRequests + 1]_vars

\* C2: when executeToolCall throws, the run does not fail: the tool message
\* {error: message} keyed by the call's id is appended, status 'error' is
\* notified, the remaining calls of the turn are executed and the next chat
\* request is issued, unless the turn was the 50th and its message carried
\* text: then that text is emitted and no chat request follows.
C2_ToolFailureDoesNotAbort ==
  [][ThrowStep =>
       /\ ThrowIsHandled
       /\ run.tcIdx = Len(run.toolCalls) =>
            IF run.iteration < 50
            THEN /\ run'.pc = "await_chat"
                 /\ obs'.chatRequests = obs.chatRequests + 1
            ELSE IF run.lastResponse.message.content = <<>>
            THEN /\ run'.pc = "await_stream"
                 /\ obs'.streamRequests = obs.streamRequests + 1
            ELSE /\ run'.pc = "await_timer"
                 /\ obs'.chatRequests = obs.chatRequests
                 /\ obs'.streamRequests = obs.streamRequests]_vars

\* the first call of a turn threw, the second was executed, and the next chat
\* request is out
C2_Witness ==
  /\ run.pc = "await_chat"
  /\ Len(obs.outcomes) = 2
  /\ ~obs.outcomes[1].ok
  /\ obs.chatRequests = 2

\* C3: one run issues at most 50 non-streaming chat requests, one per
\* iteration of the gathering loop.
C3_AtMostFiftyChatRequests ==
  /\ obs.chatRequests <= 50
  /\ obs.chatRequests = run.iteration

\* the 50th turn asked for tools and the run has gone on to finalization
C3_Witness ==
  /\ obs.chatRequests = 50
  /\ run.pc = "await_stream"
  /\ "message" \in DOMAIN run.lastResponse
  /\ ~EndsGathering(run.lastResponse)

\* the step in which a chat request of the run fails
FailStep ==
  /\ run.pc \in { "await_chat", "await_stream" }
  /\ obs'.last \in { "ChatRejects", "StreamRejects" }

\* C4: a failed chat request, in gathering or in finalization, rejects the run
\* with no further chat or tool request; the hook ends in status 'error' with
\* the error set and lastQuery the failed query, COMPLETE is never dispatched
\* for the run, and retry() resubmits that query.
C4_ChatFailureEndsRun ==
  /\ [][FailStep =>
          /\ run'.pc = "rejected"
          /\ obs'.chatRequests = obs.chatRequests
          /\ obs'.streamRequests = obs.streamRequests
          /\ obs'.toolRequests = obs.toolRequests
          /\ state'.status = "error"
          /\ state'.error \in (StreamErrors \ { "" }) \cup { DEFAULT_ERROR }
          /\ state'.lastQuery = run.query]_vars
  /\ [][run.pc = "rejected" =>
          /\ state'.status # "complete"
          /\ obs'.last = "Retry" =>
               \/ /\ run'.pc = "await_chat"
                  /\ run'.query = run.query
                  /\ state'.lastQuery = run.query
                  /\ obs'.chatRequests = 1
               \/ /\ run'.pc = "idle"
                  /\ state'.error = KEYS_ERROR
                  /\ state'.lastQuery = run.query]_vars

\* the run has failed in its second gathering request
C4_Witness ==
  /\ run.pc = "rejected"
  /\ obs.last = "ChatRejects"
  /\ run.iteration = 2
  /\ state.status = "error"
  /\ state.lastQuery = << "b" >>

\* every chunk but the last has 10 characters, the last has 1 to 10
ChunksOfTen(chunks) ==
  \A i \in 1..Len(chunks) :
    /\ Len(chunks[i]) \in 1..10
    /\ i < Len(chunks) => Len(chunks[i]) = 10

\* C5: exactly one finalization path runs.  With text in the last turn, the
\* text reaches onStreamChunk in consecutive chunks of 10 characters (the last
\* may be shorter) whose concatenation is the text, and no chat request is
\* made; without text, exactly one streaming request is made and its content
\* deltas are what reaches onStreamChunk.
C5_OneFinalizationPath ==
  /\ obs.streamRequests <= 1
  /\ run.pc \in { "await_timer", "await_stream", "resolved" } =>
       IF HasContent(run.lastResponse)
       THEN LET content == run.lastResponse.message.content
                sofar == Flatten(obs.emitted)
            IN  /\ run.pc # "await_stream"
                /\ obs.streamRequests = 0
                /\ obs.deltas = <<>>
                /\ obs.chatRequests = run.iteration
                /\ obs.emitted # <<>>
                /\ sofar = SubSeq(content, 1, Len(sofar))
                /\ run.pc = "await_timer" =>
                     \A i \in 1..Len(obs.emitted) :
                       Len(obs.emitted[i]) \in 1..10
                /\ run.pc = "resolved" =>
                     sofar = content /\ ChunksOfTen(obs.emitted)
       ELSE /\ run.pc # "await_timer"
            /\ obs.streamRequests = 1
            /\ obs.emitted = obs.deltas

\* a text of 21 characters has been emitted in chunks of 10, 10 and 1
C5_Witness ==
  /\ run.pc = "resolved"
  /\ obs.streamRequests = 0
  /\ Len(obs.emitted) = 3
  /\ Len(obs.emitted[3]) = 1

(***************************************************************************)
(* Properties of handleStream (SpecStream)                                 *)
(***************************************************************************)
\* what a call accumulates
Acc(h) == << h.content, h.reasoning, h.toolCallsMap, h.finishReason >>

\* the for loop is about to handle a line of the kind
Handling(kind) == hs.pc = "lines" /\ Kind(Head(hs.lines)) = kind

DoneSeen == \E i \in 1..Len(sobs.kinds) : sobs.kinds[i] = "done"

\* C6: once a `data: [DONE]` line has been read the iteration ends: [DONE] is
\* not parsed as JSON, and no later frame changes the accumulated content,
\* reasoning, tool calls or finish reason or triggers a callback.
C6_NothingAfterDone ==
  /\ [][Handling("done") =>
          Acc(hs') = Acc(hs) /\ sobs'.calls = sobs.calls
          /\ sobs'.warned = sobs.warned]_vars
  /\ [][DoneSeen => Acc(hs') = Acc(hs) /\ sobs'.calls = sobs.calls]_vars

\* C7: a data frame whose payload carries an error object rejects the call
\* with an error that holds the provider's message and code; no callback is
\* made for that frame or for a later one, and the reader lock is released.
C7_ErrorFrameRejects ==
  /\ [][Handling("error") =>
          LET err == Payload(Trim(SliceSix(Head(hs.lines)))[1]).error IN
          /\ hs'.pc = "rejected"
          /\ hs'.error = << "Provider error: ", err.message,
                            " (Code: ", err.code, ")" >>
          /\ sobs'.calls = sobs.calls
          /\ Acc(hs') = Acc(hs)
          /\ ~hs'.locked]_vars
  /\ [][hs.pc = "rejected" => hs' = hs /\ sobs' = sobs]_vars

\* an error frame has rejected the call after a frame that made a callback,
\* with a later line of the same read left unhandled
C7_Witness ==
  /\ hs.pc = "rejected"
  /\ ~hs.locked
  /\ sobs.kinds = << "frame", "error" >>
  /\ sobs.calls # <<>>
  /\ Len(hs.lines) = 2

\* C8: a data frame whose payload is not JSON never fails the call: it leaves
\* the accumulated content, reasoning, tool calls and finish reason as they
\* are, makes no callback, and the lines after it are handled as usual.
C8_MalformedFrameIsSkipped ==
  [][Handling("malformed") =>
       /\ Acc(hs') = Acc(hs)
       /\ sobs'.calls = sobs.calls
       /\ hs'.locked
       /\ hs'.buffer = hs.buffer
       /\ hs'.lines = Tail(hs.lines)
       /\ hs'.pc = IF Tail(hs.lines) = <<>> THEN "await_read" ELSE "lines"]_vars

\* a frame handled after a malformed one has added its content, and the call
\* has resolved
C8_Witness ==
  /\ hs.pc = "resolved"
  /\ sobs.kinds = << "malformed", "frame" >>
  /\ hs.result.content = << "x" >>

\* the tool call deltas seen for a stream index, in arrival order
DeltasFor(log, index) ==
  SelectSeq(log, LAMBDA tc : Field(tc, "index", 0) = index)

RECURSIVE Fragments(_)
Fragments(ds) ==
  IF ds = <<>> THEN <<>>
  ELSE Field(Field(Head(ds), "function", [ none |-> TRUE ]), "arguments", <<>>)
         \o Fragments(Tail(ds))

\* C9: for every stream index the accumulated tool call has the id and name of
\* the first delta seen for the index (call_<index> and '' when it has none),
\* whatever later deltas carry, and its arguments are the fragments for the
\* index concatenated in arrival order.
C9_ToolCallsMergedByIndex ==
  LET map == hs.toolCallsMap
      log == sobs.tcLog
  IN  /\ \A i \in 1..Len(log) : MapPos(map, Field(log[i], "index", 0)) >= 1
      /\ \A p, q \in 1..Len(map) : map[p].index = map[q].index => p = q
      /\ \A p \in 1..Len(map) :
           LET ds == DeltasFor(log, map[p].index)
               first == ds[1]
           IN  /\ ds # <<>>
               /\ map[p].call.id = IF "id" \in DOMAIN first THEN first.id
                                   ELSE CallId(map[p].index)
               /\ map[p].call.function.name =
                    IF "function" \in DOMAIN first
                       /\ "name" \in DOMAIN first.function
                    THEN first.function.name ELSE ""
               /\ map[p].call.function.arguments = Fragments(ds)

\* index 0 got its name and first fragment, then a delta with another id and
\* name, then the second fragment
C9_Witness ==
  /\ Len(sobs.tcLog) = 3
  /\ Field(sobs.tcLog[2], "id", "") = "call_z"
  /\ Len(hs.toolCallsMap) = 1
  /\ hs.toolCallsMap[1].call.id = "call_a"
  /\ hs.toolCallsMap[1].call.function.name = "search_web"
  /\ hs.toolCallsMap[1].call.function.arguments
       = << "{\"obj", "ective\":\"x\"}" >>

\* the last non-empty finish_reason of the frames handled
RECURSIVE LastFinish(_)
LastFinish(log) ==
  IF log = <<>> THEN NoFinish
  ELSE IF log[Len(log)] # "" THEN log[Len(log)]
  ELSE LastFinish(SubSeq(log, 1, Len(log) - 1))

\* C10: on stream end the toolCalls of the result are in ascending order of
\* stream index, whatever order the indices first arrived in, and finishReason
\* is the last non-empty finish_reason seen.
C10_ResultInIndexOrder ==
  hs.pc = "resolved" =>
    /\ hs.result.finishReason = LastFinish(sobs.finishLog)
    /\ hs.result.toolCalls = MapValues(hs.toolCallsMap)
    /\ \A p, q \in 1..Len(hs.toolCallsMap) :
         p < q => hs.toolCallsMap[p].index < hs.toolCallsMap[q].index

(***************************************************************************)
(* Properties of executeToolCall and the source sink (SpecTool)            *)
(***************************************************************************)
\* the arguments of the call under way are JSON
Parseable == JSONparseArgs(tool.args).ok

KnownTool == tool.name \in { "search_web", "extract_url" }

\* C11: a call with parseable arguments and a known tool name makes exactly
\* one provider request; a call with unparseable arguments or an unknown name
\* throws (the parse error holding the raw argument string), makes no provider
\* request and reports no Source.
C11_OneProviderRequest ==
  tool.pc # "idle" =>
    IF Parseable /\ KnownTool
    THEN tobs.requests = 1
    ELSE /\ tool.pc = "threw"
         /\ tobs.requests = 0
         /\ tobs.reported = <<>>
         /\ ~Parseable =>
              tool.error = "Failed to parse tool arguments: " \o tool.args

\* C12: when an extract_url call with URL list U is over, every URL of U has
\* been reported to the sink as a Source of type 'extract', whether the
\* provider returned content for it or not and whether the request succeeded
\* or not.
C12_EveryUrlBecomesASource ==
  ( /\ tool.name = "extract_url"
    /\ tool.pc \in { "returned", "threw" }
    /\ "urls" \in DOMAIN tool.parsedArgs ) =>
    LET urls == tool.parsedArgs.urls IN
    /\ Len(tobs.reported) = Len(urls)
    /\ \A i \in 1..Len(urls) :
         tobs.reported[i].url = urls[i] /\ tobs.reported[i].type = "extract"

\* the first report of every URL, in the order of the reports
RECURSIVE FirstOccurrences(_)
FirstOccurrences(log) ==
  IF log = <<>> THEN <<>>
  ELSE LET rest == FirstOccurrences(SubSeq(log, 1, Len(log) - 1))
           last == log[Len(log)]
       IN  IF \E i \in 1..Len(rest) : rest[i].url = last.url
           THEN rest ELSE Append(rest, last)

\* C13: after any sequence of SOURCE_ADDED since the last START the sources
\* hold no URL twice; the entry of a URL is the first one reported, with its
\* type and title, in first-occurrence order, and a duplicate leaves the state
\* as it is.
C13_SourcesDeduplicated ==
  /\ tstate.sources = FirstOccurrences(tobs.sinceStart)
  /\ \A i, j \in 1..Len(tstate.sources) :
       tstate.sources[i].url = tstate.sources[j].url => i = j
  /\ \A i \in 1..Len(tstate.sources), ty \in { "search", "extract" } :
       researchReducer(tstate,
         [ type |-> "SOURCE_ADDED",
           payload |-> [ url |-> tstate.sources[i].url, title |-> "other",
                         type |-> ty, timestamp |-> 0 ] ]) = tstate

\* a URL found by a search was reported again by an extraction, after another
\* URL had been reported
C13_Witness ==
  /\ Len(tstate.sources) = 2
  /\ \E i, j \in 1..Len(tobs.sinceStart) :
       /\ i < j
       /\ tobs.sinceStart[i].url = tobs.sinceStart[j].url
       /\ tobs.sinceStart[i].type = "search"
       /\ tobs.sinceStart[j].type = "extract"
       /\ tobs.sinceStart[i].title # tobs.sinceStart[j].title
       /\ tstate.sources[2] = tobs.sinceStart[i]

(***************************************************************************)
(* Properties of the citation strippers (SpecCite)                         *)
(***************************************************************************)
\* the parentheses of positions a..b of the text are balanced
Balanced(text, a, b) ==
  LET depth(p) == Cardinality({ q \in a..p : text[q] = "(" })
                    - Cardinality({ q \in a..p : text[q] = ")" })
  IN  depth(b) = 0 /\ \A p \in a..b : depth(p) >= 0

\* positions j+2..k-1 of the text hold a link destination closed at k: not
\* empty, its parentheses balanced
IsDestination(text, j, k) ==
  text[k] = ")" /\ j + 2 < k /\ Balanced(text, j + 2, k - 1)

\* positions i..k of the text hold a markdown link [text](url) whose text ends
\* before position j and whose url is closed at k
IsLink(text, i, j, k) ==
  /\ text[i] = "[" /\ text[j] = "]" /\ text[j + 1] = "("
  /\ i + 1 < j
  /\ \A p \in (i + 1)..(j - 1) : text[p] # "]"
  /\ IsDestination(text, j, k)
  /\ \A q \in (j + 3)..(k - 1) : ~IsDestination(text, j, q)

\* the markdown links of the text from position i on, left to right
RECURSIVE LinksFrom(_, _)
LinksFrom(text, i) ==
  IF i > Len(text) THEN <<>>
  ELSE IF \E j, k \in (i + 1)..Len(text) : j < k /\ IsLink(text, i, j, k)
  THEN LET jk == CHOOSE jk \in ((i + 1)..Len(text)) \X ((i + 1)..Len(text)) :
                   jk[1] < jk[2] /\ IsLink(text, i, jk[1], jk[2])
       IN  << [ i |-> i, j |-> jk[1], k |-> jk[2] ] >>
             \o LinksFrom(text, jk[2] + 1)
  ELSE LinksFrom(text, i + 1)

\* the http(s) URLs among the URLs of the texts
HttpUrls ==
  { << "h", "t", "t", "p", ":", "/", "/", "x" >>,
    << "h", "t", "t", "p", "s", ":", "/", "/", "y" >>,
    << "h", "t", "t", "p", ":", "/", "/", "x", "/", "(", "b", ")" >> }

\* the links of the text whose URL is an http(s) URL
CitationLinks(text) ==
  SelectSeq(LinksFrom(text, 1),
            LAMBDA l : SubSeq(text, l.j + 2, l.k - 1) \in HttpUrls)

\* the text from position p on with the links deleted or replaced by their text
RECURSIVE Rewritten(_, _, _, _)
Rewritten(text, p, links, keepText) ==
  IF p > Len(text) THEN <<>>
  ELSE IF links # <<>> /\ Head(links).i = p
  THEN (IF keepText THEN SubSeq(text, p + 1, Head(links).j - 1) ELSE <<>>)
         \o Rewritten(text, Head(links).k + 1, Tail(links), keepText)
  ELSE << text[p] >> \o Rewritten(text, p + 1, links, keepText)

\* C14: strippedText is the input with every markdown link whose URL is an
\* http(s) URL, and only those, deleted (stripCitations) or replaced by its
\* link text (stripCitationsKeepText), every other character kept in order;
\* the citations are those links left to right with indices 0..n-1; a text
\* with no such link is returned unchanged with no citation.  (A markdown
\* link is [text](url), the text without "]", the url with its parentheses
\* balanced; links are taken left to right and do not overlap.)
C14_StripsExactlyTheCitations ==
  cite.pc = "returned" =>
    LET links == CitationLinks(cite.text)
        r == cite.result
    IN  /\ r.strippedText = Rewritten(cite.text, 1, links, cite.keepText)
        /\ Len(r.citations) = Len(links)
        /\ \A n \in 1..Len(links) :
             /\ r.citations[n].index = n - 1
             /\ r.citations[n].position = links[n].i - 1
             /\ r.citations[n].fullMatch
                  = SubSeq(cite.text, links[n].i, links[n].k)
             /\ r.citations[n].title
                  = SubSeq(cite.text, links[n].i + 1, links[n].j - 1)
             /\ r.citations[n].url
                  = SubSeq(cite.text, links[n].j + 2, links[n].k - 1)
        /\ links = <<>> => r.strippedText = cite.text /\ r.citations = <<>>

\* the length a replacement takes out of the text
Delta(citation, keepText) ==
  Len(citation.fullMatch) - (IF keepText THEN Len(citation.title) ELSE 0)

RECURSIVE DeltaSum(_, _, _)
DeltaSum(citations, n, keepText) ==
  IF n = 0 THEN 0
  ELSE DeltaSum(citations, n - 1, keepText) + Delta(citations[n], keepText)

\* C15: in both modes the position of a citation is an offset into the
\* original text (the text from there on starts with its fullMatch), and the
\* position recorded for it in the stripped text is that offset minus the
\* lengths the replacements of the citations to its left took out; there the
\* stripped text holds what replaced the link.
C15_OffsetsAreConsistent ==
  cite.pc = "returned" =>
    LET r == cite.result IN
    /\ Len(r.positionMap) = Len(r.citations)
    /\ \A n \in 1..Len(r.citations) :
         LET c == r.citations[n]
             stripped == c.position - DeltaSum(r.citations, n - 1, cite.keepText)
         IN  /\ StringSlice(cite.text, c.position,
                            c.position + Len(c.fullMatch)) = c.fullMatch
             /\ r.positionMap[n] = [ key |-> c.position, value |-> stripped ]
             /\ cite.keepText =>
                  StringSlice(r.strippedText, stripped,
                              stripped + Len(c.title)) = c.title

\* stripCitationsKeepText has replaced two links: the second, at offset 16 of
\* the text, is at offset 3 of the stripped text
C15_Witness ==
  /\ cite.pc = "returned"
  /\ cite.keepText
  /\ cite.text = HTTPS_LINK \o << "z" >> \o HTTP_LINK
  /\ cite.result.strippedText = << "b", "c", "z", "a" >>
  /\ cite.result.positionMap
       = << [ key |-> 0, value |-> 0 ], [ key |-> 16, value |-> 3 ] >>

(***************************************************************************)
(* Properties of claim validation and merging (SpecClaims)                 *)
(***************************************************************************)
Validated == cl.pc = "returned" /\ cl.fn = "validateClaimExtractionResult"

\* every claim returned is the slice of the answer its range names
ClaimsAreSlices ==
  \A n \in 1..Len(cl.result.claims) :
    LET c == cl.result.claims[n] IN
    c.text = StringSlice(cl.originalText, c.range.start, c.range.end)

\* C16: every claim validation returns, accepted as it is, relocated by exact
\* search or repaired by fuzzy matching, satisfies
\* text === original.slice(range.start, range.end); the entries that cannot
\* are discarded, and validation does not throw for them.
C16_ValidClaimsAreSlices ==
  Validated => ~cl.result.threw /\ ClaimsAreSlices

Merged == cl.pc = "returned" /\ cl.fn = "mergeClaims"

\* C17: mergeClaims is idempotent: merging a merged list returns the same
\* claims with the same ranges in the same order.
C17_MergeIsIdempotent ==
  Merged => mergeClaims(cl.result) = cl.result

\* of three claims given out of order two were merged and one was left apart
C17_Witness ==
  /\ Merged
  /\ Len(cl.input) = 3
  /\ cl.input[1].range.start > cl.input[2].range.start
  /\ Len(cl.result) = 2
  /\ cl.result[1].range.end > cl.input[2].range.end

(***************************************************************************)
(* Properties of buildBasesForClaims (SpecBasis)                           *)
(***************************************************************************)
\* the Bases of the list that carry the text and the range of the claim
BasesOf(bases, claim) ==
  { p \in 1..Len(bases) :
      bases[p].claimText = claim.text /\ bases[p].claimRange = claim.range }

\* C18: whatever the batch and single-claim LLM calls settle with (a failure,
\* or a success with any content), buildBasesForClaims returns exactly one
\* Basis per input claim: as many Bases as claims, and for each claim exactly
\* one Basis that carries its text and range.
C18_OneBasisPerClaim ==
  bb.pc = "resolved" =>
    /\ Len(bb.bases) = Len(bb.claims)
    /\ \A i \in 1..Len(bb.claims) :
         Cardinality(BasesOf(bb.bases, bb.claims[i])) = 1

\* the positions of the batch requests in the request log
BatchRequests ==
  SelectSeq([ j \in 1..Len(bbobs.requests) |-> j ],
            LAMBDA j : bbobs.requests[j].kind = "batch")

IdsOf(claims) == [ j \in 1..Len(claims) |-> claims[j].id ]

\* the requests logged after position j and before position next
Between(j, next) == SubSeq(bbobs.requests, j + 1, next - 1)

\* one single-claim request per id, in order
SinglesFor(ids) ==
  [ j \in 1..Len(ids) |-> [ kind |-> "single", ids |-> << ids[j] >> ] ]

IsPrefix(s, t) == Len(s) <= Len(t) /\ s = SubSeq(t, 1, Len(s))

\* every batch call so far has failed
AllBatchesFailed ==
  \A b \in 1..Len(BatchRequests) :
    BatchRequests[b] <= Len(bbobs.outcomes)
      => bbobs.outcomes[BatchRequests[b]] = "rejected"

\* the request log is made of consecutive batches of at most 5 claims in array
\* order, one batch call per batch; a failed batch call is followed by exactly
\* one single-claim call per claim of the batch, in order, and a batch call
\* that succeeded by none; when every batch call has failed the Bases are in
\* claim order, one per claim
BatchesThenSingles ==
  LET reqs == bbobs.requests
      n == Len(bb.claims)
      nb == Len(BatchRequests)
      over == bb.pc = "resolved"
  IN  /\ bb.pc # "idle" => reqs = <<>> \/ reqs[1].kind = "batch"
      /\ nb * batchSize < n + batchSize
      /\ over => (nb - 1) * batchSize < n /\ n <= nb * batchSize
      /\ \A b \in 1..nb :
           LET j == BatchRequests[b]
               ids == IdsOf(BatchAt(bb.claims, (b - 1) * batchSize))
               last == b = nb
               next == IF last THEN Len(reqs) + 1 ELSE BatchRequests[b + 1]
               singles == Between(j, next)
               closed == ~last \/ over
           IN  /\ reqs[j].ids = ids
               /\ Len(ids) >= 1 /\ Len(ids) <= batchSize
               /\ j <= Len(bbobs.outcomes) /\ bbobs.outcomes[j] = "resolved"
                    => singles = <<>>
               /\ j <= Len(bbobs.outcomes) /\ bbobs.outcomes[j] = "rejected"
                    => /\ IsPrefix(singles, SinglesFor(ids))
                       /\ closed => singles = SinglesFor(ids)
               /\ j > Len(bbobs.outcomes) => singles = <<>>
      /\ AllBatchesFailed =>
           /\ \A p \in 1..Len(bb.bases) :
                /\ p <= n
                /\ bb.bases[p].claimText = bb.claims[p].text
                /\ bb.bases[p].claimRange = bb.claims[p].range
           /\ over => Len(bb.bases) = n

\* C19: claims are handled in consecutive batches of at most 5 in array
\* order with one batch call per batch; when a batch call fails, exactly one
\* single-claim call is made per claim of the batch, in order, and each adds
\* exactly one Basis for its claim (the low-confidence fallback when the call
\* fails too); then the next batch follows, so that n claims whose batch
\* calls all fail yield n Bases in claim order.
C19_BatchFailureFallsBack ==
  /\ []BatchesThenSingles
  /\ [][bb.pc = "await_single" =>
         LET claim == BatchAt(bb.claims, bb.i)[bb.k]
             basis == bb'.bases[Len(bb'.bases)]
         IN  /\ Len(bb'.bases) = Len(bb.bases) + 1
             /\ SubSeq(bb'.bases, 1, Len(bb.bases)) = bb.bases
             /\ basis.claimText = claim.text
             /\ basis.claimRange = claim.range
             /\ bbobs'.outcomes[Len(bbobs.outcomes) + 1] = "rejected"
                  => /\ basis.confidence = "low"
                     /\ basis.reasoning = FALLBACK_REASONING]_vars

\* 7 claims, batched as 5 and 2, whose batch calls have both failed and whose
\* single-claim calls have partly failed: 7 Bases have been returned
C19_Witness ==
  /\ bb.pc = "resolved"
  /\ Len(bb.claims) = 7
  /\ Len(bbobs.requests) = 9
  /\ bbobs.requests[1].kind = "batch" /\ Len(bbobs.requests[1].ids) = 5
  /\ bbobs.requests[7].kind = "batch" /\ Len(bbobs.requests[7].ids) = 2
  /\ bbobs.outcomes[1] = "rejected" /\ bbobs.outcomes[7] = "rejected"
  /\ bbobs.outcomes[2] = "rejected" /\ bbobs.outcomes[3] = "resolved"
  /\ Len(bb.bases) = 7

(***************************************************************************)
(* Properties of the citation-mode hook (SpecMode)                         *)
(***************************************************************************)
\* what a Basis says about its claim
Frozen(basis) ==
  [ id |-> basis.id, claimText |-> basis.claimText,
    claimRange |-> basis.claimRange, confidence |-> basis.confidence,
    reasoning |-> basis.reasoning ]

\* every Basis of before that is still in after says the same about its claim
SameById(before, after) ==
  \A j \in 1..Len(before), k \in 1..Len(after) :
    before[j].id = after[k].id => Frozen(before[j]) = Frozen(after[k])

\* the same Bases in the same places, each saying the same about its claim
SameInPlace(before, after) ==
  /\ Len(before) = Len(after)
  /\ \A j \in 1..Len(before) : Frozen(before[j]) = Frozen(after[j])

\* the ids on display and one that is not
SomeIds == BasisIds(cm.bases) \cup { generateBasisId(0) }

\* the (basis, source) pairs on display or being fetched, and for every id a
\* source that may not be among those of the basis
SomePairs ==
  SourcePairs(cm.bases) \cup cmobs.pending
    \cup { [ basisId |-> id, sourceUrl |-> UrlB ] : id \in SomeIds }

\* the actions of the kinds that keep the list of Bases, with every payload
\* the hook can dispatch in the current state
FlagActions ==
  { [ type |-> t, payload |-> id ] :
      t \in { "TOGGLE_BASIS_EXPANDED", "REMOVE_BASIS" }, id \in SomeIds }

ExcerptActions ==
  { [ type |-> "UPDATE_BASIS_EXCERPT",
      payload |-> [ basisId |-> pair.basisId, sourceUrl |-> pair.sourceUrl,
                    excerpt |-> e ] ] :
      pair \in SomePairs, e \in { "excerpt", FAILED_EXCERPT } }

LoadingActions ==
  { [ type |-> "SET_SOURCE_LOADING",
      payload |-> [ basisId |-> pair.basisId, sourceUrl |-> pair.sourceUrl,
                    loading |-> l ] ] :
      pair \in SomePairs, l \in BOOLEAN }

ProgressActions ==
  { Progress("researching", 0, Len(cm.bases), << >>),
    Progress("complete", 4, 4, << >>) }

ErrorActions == { ProcessingError(EXTRACTION_ERROR) }

\* each of the actions keeps every Basis in its place, saying the same
Keeps(actions) ==
  \A action \in actions :
    SameInPlace(cm.bases, citationModeReducer(cm, action).bases)

\* PROCESSING_COMPLETE with the Bases the builder of the run has made
CompletingActions ==
  IF an.pc = "building"
  THEN { [ type |-> "PROCESSING_COMPLETE",
           payload |-> [ bases |-> an.call.bases ] ] }
  ELSE {}

\* C20: once a Basis exists no later operation changes its claim binding:
\* TOGGLE_BASIS_EXPANDED, REMOVE_BASIS, UPDATE_BASIS_EXCERPT,
\* SET_SOURCE_LOADING, UPDATE_PROGRESS and PROCESSING_ERROR keep every Basis
\* in its place with its claimText, claimRange, confidence and reasoning,
\* PROCESSING_COMPLETE and every step of the hook keep them for every Basis
\* that stays, and reanalyzeBasis resolves to a Basis with the claimText and
\* claimRange of its input.
C20_ClaimBindingIsFrozen ==
  /\ [](/\ Keeps(FlagActions) /\ Keeps(ExcerptActions)
        /\ Keeps(LoadingActions) /\ Keeps(ProgressActions)
        /\ Keeps(ErrorActions))
  /\ [](\A action \in CompletingActions :
          SameById(cm.bases, citationModeReducer(cm, action).bases))
  /\ [][SameById(cm.bases, cm'.bases)]_vars
  /\ [](cmobs.re.pc = "resolved" => cmobs.re.result = cmobs.re.basis)

\* an analysis has completed with two Bases, made in an order other than
\* that of their claims, and a reanalysis of one of them has resolved
C20_Witness ==
  /\ cm.progress.phase = "complete"
  /\ ~cm.isProcessing
  /\ Len(cm.bases) = 2
  /\ an.call.bases = << cm.bases[2], cm.bases[1] >>
  /\ cmobs.re.pc = "resolved"
  /\ \E j \in 1..Len(cm.bases) : cmobs.re.basis = ClaimBinding(cm.bases[j])


(***************************************************************************)
(* The history sent with a chat request (Spec)                             *)
(***************************************************************************)
\* from position i on the history is a sequence of complete tool turns: an
\* assistant message carrying tool_calls, then one tool message per call,
\* keyed by the call ids in order
RECURSIVE ToolTurnsFrom(_, _)
ToolTurnsFrom(msgs, i) ==
  IF i > Len(msgs) THEN TRUE
  ELSE /\ msgs[i].role = "assistant"
       /\ "tool_calls" \in DOMAIN msgs[i]
       /\ LET k == Len(msgs[i].tool_calls)
          IN  /\ i + k <= Len(msgs)
              /\ \A j \in 1..k :
                   /\ msgs[i + j].role = "tool"
                   /\ msgs[i + j].tool_call_id = msgs[i].tool_calls[j].id
              /\ ToolTurnsFrom(msgs, i + k + 1)

WellFormedHistory(msgs, query) ==
  /\ Len(msgs) >= 2
  /\ msgs[1] = [ role |-> "system", content |-> SYSTEM_PROMPT ]
  /\ msgs[2] = [ role |-> "user", content |-> query ]
  /\ ToolTurnsFrom(msgs, 3)

AssistantMessages(msgs) ==
  Cardinality({ i \in 1..Len(msgs) : msgs[i].role = "assistant" })

\* C28: at every chat request of executeResearchQuery, non-streaming or
\* streaming, the history is the system message, the user query, then complete
\* tool turns only: each an assistant message with k tool calls followed at
\* once by exactly k tool messages whose tool_call_id values are the requested
\* ids in order; the request of iteration n is sent with the n - 1 turns before
\* it, and the message of a turn that ends the loop is never appended.
C28_HistoryIsWellFormed ==
  /\ [](run.pc \in { "await_chat", "await_stream" } =>
          WellFormedHistory(run.messages, run.query))
  /\ [](run.pc = "await_chat" =>
          AssistantMessages(run.messages) = run.iteration - 1)
  /\ [][(run.pc = "await_chat" /\ obs'.last = "ChatResolves"
           /\ EndsGathering(run'.lastResponse)) =>
          run'.messages = run.messages]_vars

\* the streaming request goes out after a turn of two calls sharing one id,
\* whose second call threw, and after the turn that ended the loop
C28_Witness ==
  /\ run.pc = "await_stream"
  /\ Len(run.messages) = 5
  /\ run.messages[4].role = "tool"
  /\ run.messages[4].tool_call_id = run.messages[5].tool_call_id
  /\ "error" \in DOMAIN run.messages[5].content.json
  /\ "message" \in DOMAIN run.lastResponse
  /\ EndsGathering(run.lastResponse)


(***************************************************************************)
(* Properties of calculateOverallConfidence (SpecScore)                    *)
(***************************************************************************)
\* the list with the confidence of its i-th Basis replaced
Upgraded(bases, i, confidence) ==
  [ bases EXCEPT ![i] = [ @ EXCEPT !.confidence = confidence ] ]

\* s is the integer nearest to a / n, the upper one of two
IsRounded(s, a, n) == 2 * n * s <= 2 * a + n /\ 2 * a + n < 2 * n * (s + 1)

\* C27: calculateOverallConfidence is monotonic: for every non-empty list of
\* Bases, replacing one Basis of confidence low by the same Basis with
\* confidence medium or high never decreases the score; the score is
\* round((100 * high + 60 * medium + 20 * low) / count), and 0 for no Bases.
C27_ScoreIsMonotonic ==
  sc.pc = "returned" =>
    LET bases == sc.bases
        n == Len(bases)
        d == sc.result.distribution
    IN  /\ n = 0 => sc.result.score = 0
        /\ n > 0 =>
             /\ d.high + d.medium + d.low = n
             /\ IsRounded(sc.result.score,
                          100 * d.high + 60 * d.medium + 20 * d.low, n)
        /\ \A i \in 1..n :
             bases[i].confidence = "low" =>
               \A c \in { "medium", "high" } :
                 calculateOverallConfidence(Upgraded(bases, i, c)).score
                   >= sc.result.score

\* a list of three Bases, low ones among them, whose quotient is not an
\* integer has been scored
C27_Witness ==
  /\ sc.pc = "returned"
  /\ Len(sc.bases) = 3
  /\ sc.result.distribution.low = 2
  /\ sc.result.distribution.high = 1
  /\ sc.result.score = 47


(***************************************************************************)
(* Properties of the excerpt fetcher (SpecExcerpt)                         *)
(***************************************************************************)
\* C23: at no point during fetchExcerptsBatch are more than 3 fetchExcerpt
\* calls in flight, for 0 pairs and more and for every order in which the
\* requests of the calls settle.
C23_AtMostThreeInFlight ==
  /\ InFlight(ex) <= 3
  /\ exobs.peak <= 3
  /\ Len(ex.workers) <= 3

\* of four pairs one has been fetched, the fourth has been started in its
\* place, and three calls are in flight
C23_Witness ==
  /\ ex.pc = "running"
  /\ DOMAIN ex.results # {}
  /\ ex.queue = <<>>
  /\ InFlight(ex) = 3
  /\ exobs.extractRequests = 4

\* fetchExcerpt called in the current state by a caller of its own
Called(item) ==
  LET e == [ ex EXCEPT !.workers = Append(@, NewWorker) ]
  IN  fetchExcerpt(EWorld(e, exobs, <<>>), Len(e.workers), item)

\* the key of the pair: its URL and the first 100 characters of its claim
PrefixKey(item) ==
  << item.source.url,
     SubSeq(item.claimText, 1, Min(100, Len(item.claimText))) >>

AnyPair == { ExcerptPairs[i] : i \in 1..Len(ExcerptPairs) }

\* C24: if the cache holds an entry for the key built from the source URL and
\* the first 100 characters of the claim text, fetchExcerpt returns that entry,
\* issues no extract request and no LLM request, and leaves the cache as it is.
C24_CacheHitFetchesNothing ==
  \A item \in AnyPair :
    PrefixKey(item) \in DOMAIN ex.cache =>
      LET w == Called(item)
          caller == w.ex.workers[Len(w.ex.workers)]
      IN  /\ caller.pc = "resume"
          /\ caller.result = ex.cache[PrefixKey(item)]
          /\ w.obs.extractRequests = exobs.extractRequests
          /\ w.obs.llmRequests = exobs.llmRequests
          /\ w.ex.cache = ex.cache

\* a batch of four pairs is over with three extract requests: its fourth pair,
\* the claim that shares its first 100 characters with the second, was served
\* from the cache
C24_Witness ==
  /\ ex.pc = "resolved"
  /\ Len(ex.workers) = 3
  /\ ex.asked = 4
  /\ exobs.extractRequests = 3
  /\ PrefixKey(ExcerptPairs[4]) \in DOMAIN ex.cache

\* the results findRelevantExcerpt can return
LLMStageResults ==
  { findRelevantExcerpt(r).value :
      r \in { x \in LLMResponses(ExcerptContents) :
                ~findRelevantExcerpt(x).threw } }

\* every entry of the cache was returned by the LLM stage
CacheHoldsLLMResults ==
  \A key \in DOMAIN ex.cache : ex.cache[key] \in LLMStageResults

\* a call for a key the cache does not hold sends an extract request
MissFetches ==
  \A item \in AnyPair :
    PrefixKey(item) \notin DOMAIN ex.cache =>
      LET w == Called(item)
      IN  /\ w.ex.workers[Len(w.ex.workers)].pc = "await_extract"
          /\ w.obs.extractRequests = exobs.extractRequests + 1

\* a request of a fetchExcerpt call settles
SettleStep ==
  /\ ex.pc = "running"
  /\ exobs'.last \in { "ExtractSettles", "LLMSettles" }

\* what the step did: the call goes on to the LLM stage, or it resolves (it
\* never rejects); without content or after a throw it resolves to a
\* low-confidence placeholder and the cache is as before; with a result of
\* the LLM stage that result is stored under the key of the call
SettlesAsClaimed ==
  LET s == exobs'.settled IN
  CASE s.outcome = "content" ->
         exobs'.last = "ExtractSettles" /\ ex'.cache = ex.cache
    [] s.outcome = "no content" ->
         /\ exobs'.last = "ExtractSettles"
         /\ s.result.confidence = "low"
         /\ s.result.excerpt = "Unable to load content from source."
         /\ ex'.cache = ex.cache
    [] s.outcome = "threw" ->
         /\ exobs'.last = "LLMSettles"
         /\ s.result.confidence = "low"
         /\ s.result.excerpt = "Failed to load excerpt."
         /\ ex'.cache = ex.cache
    [] s.outcome = "found" ->
         /\ exobs'.last = "LLMSettles"
         /\ s.result \in LLMStageResults
         /\ ex'.cache = MapSetKey(ex.cache, PrefixKey(s.item), s.result)
    [] OTHER -> FALSE

\* C25: fetchExcerpt never rejects: when content extraction yields nothing or a
\* request throws, it resolves to a low-confidence placeholder and leaves the
\* cache unchanged, so that a later call with the same key fetches again; the
\* cache is written only with a result returned by the LLM stage.
C25_FailuresAreNotCached ==
  /\ [](CacheHoldsLLMResults /\ MissFetches)
  /\ [][SettleStep => SettlesAsClaimed]_vars
  /\ [][~SettleStep => ex'.cache = ex.cache \/ ex'.cache = EmptyMap]_vars

\* the LLM request of a call has thrown, the call has resolved to the
\* placeholder, and the cache holds nothing under its key
C25_Witness ==
  /\ exobs.settled.outcome = "threw"
  /\ exobs.settled.result = errorResult(LLM_ERROR)
  /\ PrefixKey(exobs.settled.item) \notin DOMAIN ex.cache
  /\ ex.pc = "resolved"

\* C30: while the cache is not cleared, at most one fetch is completed and
\* stored per cache key, also when several fetchExcerpt calls for the key are
\* in flight at once (duplicate pairs in one batch), and a value once cached
\* for a key is never replaced by a different one.
C30_OneFetchPerKey ==
  /\ \A key \in DOMAIN exobs.stored : exobs.stored[key] <= 1
  /\ exobs.replaced = {}


(***************************************************************************)
(* Excerpt loads of the hook (SpecMode)                                    *)
(***************************************************************************)
\* a source apart from its excerpt and loading fields
Unloaded(source) ==
  [ f \in DOMAIN source \ { "excerpt", "isLoading" } |-> source[f] ]

\* the pairs on display whose load has failed
FailedPairs ==
  { pair \in SourcePairs(cm.bases) :
      LET found == FindPair(cm.bases, pair)
      IN  /\ found # <<>>
          /\ Field(found[1], "excerpt", UNDEFINED) \in FailedExcerpts
          /\ ~Field(found[1], "isLoading", FALSE) }

\* loadExcerpt for a pair whose load has failed starts a fetch
RetryStartsFetch ==
  \A pair \in FailedPairs :
    LET w == loadExcerpt(MHere, pair)
    IN  /\ pair \in w.obs.pending
        /\ Field(FindPair(w.state.bases, pair)[1], "isLoading", FALSE)

\* recording a failed load changes the excerpt and loading fields of the
\* sources with the URL in the Basis with the id, and nothing else
FailureTouchesOnlyItsSource ==
  \A pair \in cmobs.pending, excerpt \in FailedExcerpts :
    LET after == AfterExcerpt(MHere, pair, excerpt).state
    IN  /\ [ after EXCEPT !.bases = cm.bases ] = cm
        /\ Len(after.bases) = Len(cm.bases)
        /\ \A j \in 1..Len(cm.bases) :
             LET old == cm.bases[j]
                 new == after.bases[j]
             IN  /\ [ new EXCEPT !.sources = old.sources ] = old
                 /\ Len(new.sources) = Len(old.sources)
                 /\ \A q \in 1..Len(old.sources) :
                      IF old.id = pair.basisId
                         /\ old.sources[q].url = pair.sourceUrl
                      THEN /\ Unloaded(new.sources[q])
                              = Unloaded(old.sources[q])
                           /\ new.sources[q].excerpt = excerpt
                           /\ ~new.sources[q].isLoading
                      ELSE new.sources[q] = old.sources[q]

\* C26: after the load of the excerpt of one source of a Basis has failed, a
\* later loadExcerpt for the same Basis and source starts a new fetch, and the
\* failure changes nothing in the Basis other than the excerpt and loading
\* fields of that source.
C26_FailedLoadIsRetryable == RetryStartsFetch /\ FailureTouchesOnlyItsSource


(***************************************************************************)
(* Properties of runCitationMode (SpecRun)                                 *)
(***************************************************************************)
PhaseRank(phase) ==
  CASE phase = "stripping" -> 1
    [] phase = "analyzing" -> 2
    [] phase = "researching" -> 3
    [] phase = "complete" -> 4

\* the events of one phase, in the order reported
EventsOf(phase) == SelectSeq(rcobs.progress, LAMBDA e : e.phase = phase)

\* no event reports an earlier phase than the event before it
PhasesInOrder ==
  \A p \in 1..(Len(rcobs.progress) - 1) :
    PhaseRank(rcobs.progress[p].phase) <= PhaseRank(rcobs.progress[p + 1].phase)

\* no event reports a smaller part done than the event before it
StepsNeverDecrease ==
  \A p \in 1..(Len(rcobs.progress) - 1) :
    LET a == rcobs.progress[p]
        b == rcobs.progress[p + 1]
    IN  a.currentStep * b.totalSteps <= b.currentStep * a.totalSteps

\* one 'researching' event per batch call, made before it, with the number
\* of claims handled so far out of the number of claims
ResearchingOncePerBatch ==
  LET events == EventsOf("researching")
      batches == SelectSeq(rcobs.requests, LAMBDA r : r.kind = "batch")
  IN  /\ Len(events) = Len(batches)
      /\ \A k \in 1..Len(events) :
           /\ events[k].currentStep = (k - 1) * batchSize
           /\ events[k].totalSteps = Len(rc.mergedClaims)

\* 'complete' is reported by the run that resolves, as its last event, and
\* by no other
CompleteIsLast ==
  LET n == Len(rcobs.progress) IN
  /\ \A p \in 1..(n - 1) : rcobs.progress[p].phase # "complete"
  /\ rc.pc = "resolved" <=> (n > 0 /\ rcobs.progress[n].phase = "complete")

\* C21: within one run the progress events are monotonic: the phase never
\* goes back to an earlier one of stripping, analyzing, researching, complete,
\* and the step progress (currentStep out of totalSteps) never decreases from
\* one event to the next; 'researching' is reported once per batch with the
\* running claim count, and 'complete' is the last event of a successful run.
C21_ProgressIsMonotonic ==
  /\ PhasesInOrder
  /\ StepsNeverDecrease
  /\ ResearchingOncePerBatch
  /\ CompleteIsLast

\* a call of the builder has failed
FailedCalls ==
  { j \in 1..Len(rcobs.outcomes) : rcobs.outcomes[j] = "rejected" }

\* the run rejects exactly when extractClaims does: then onError has been
\* called once, buildBasesForClaims has not been called, no builder request
\* has been sent and 'complete' has not been reported; when extractClaims
\* resolves the builder is called once, onError is not called, and the run
\* resolves, with 'complete' reported, when the builder returns
RejectsWithExtraction ==
  /\ rc.pc = "rejected" <=> rcobs.extraction = "rejected"
  /\ rc.pc = "rejected" =>
       /\ Len(rcobs.errors) = 1
       /\ rcobs.builds = 0
       /\ rcobs.requests = <<>>
       /\ EventsOf("complete") = <<>> /\ EventsOf("researching") = <<>>
  /\ rcobs.extraction = "resolved" =>
       /\ rc.pc \in { "building", "resolved" }
       /\ rcobs.builds = 1
       /\ rcobs.errors = <<>>
       /\ rc.b.pc = "resolved" <=> rc.pc = "resolved"
       /\ rc.pc = "resolved" =>
            /\ Len(EventsOf("complete")) = 1
            /\ rc.result.bases = rc.b.bases
  /\ rc.pc \in { "idle", "await_claims" } => rcobs.extraction = "none"

\* C22: runCitationMode rejects exactly when claim extraction fails: it then
\* calls onError, makes no basis-building call and never reports 'complete';
\* failures of basis-building calls, however many, never make the run reject:
\* it goes on to the next call, and resolves and reports 'complete' when the
\* last one has settled.
C22_OnlyExtractionFailureRejects ==
  /\ []RejectsWithExtraction
  /\ [][rc.pc = "building" => rc'.pc \in { "building", "resolved" }]_vars
  /\ [][rc.pc \in { "resolved", "rejected" } => rc' = rc]_vars

\* six claims, every batch call and every single-claim call failed, and the
\* run has resolved with six Bases and reported 'complete'
C22_Witness ==
  /\ rc.pc = "resolved"
  /\ Len(rc.mergedClaims) = 6
  /\ Len(rcobs.outcomes) = 8
  /\ Cardinality(FailedCalls) = 8
  /\ Len(rc.result.bases) = 6
  /\ rcobs.progress[Len(rcobs.progress)].phase = "complete"

\* the claim is the slice of the stripped answer its range names
IsSliceOf(text, range, strippedResponse) ==
  text = StringSlice(strippedResponse, range.start, range.end)

\* C29: every claim runCitationMode hands to the Basis Builder after
\* filterClaims and mergeClaims, and every Basis it returns, satisfies
\* claimText === strippedResponse.slice(claimRange.start, claimRange.end).
C29_MergedClaimsAreSlices ==
  /\ \A j \in 1..Len(rc.b.claims) :
       IsSliceOf(rc.b.claims[j].text, rc.b.claims[j].range, rc.strippedText)
  /\ rc.pc = "resolved" =>
       \A j \in 1..Len(rc.result.bases) :
         IsSliceOf(rc.result.bases[j].claimText,
                   rc.result.bases[j].claimRange, rc.result.strippedResponse)


(***************************************************************************)
(* Further properties of claim validation and merging (SpecClaims)         *)
(***************************************************************************)
\* the entry has no string as its text, or its range as the extractor gave
\* it is malformed for the answer
Malformed(entry, originalText) ==
  \/ entry = JSONnull
  \/ "text" \notin DOMAIN entry
  \/ "start" \notin DOMAIN entry \/ "end" \notin DOMAIN entry
  \/ entry.start < 0 \/ entry.end > Len(originalText)
  \/ entry.start >= entry.end

\* C31: claim validation rejects, before any repair is attempted, every entry
\* whose text is not a string or whose range is malformed (start < 0,
\* end > length of the text, or start >= end): no such entry contributes a
\* claim to the result.
C31_MalformedEntriesAreRejected ==
  Validated /\ "claims" \in DOMAIN cl.input =>
    \A n \in 1..Len(cl.result.kinds) :
      Malformed(cl.input.claims[n], cl.originalText)
        => cl.result.kinds[n] \in { "skip", "throw" }


\* the range a lies inside the range b
Inside(a, b) == b.start <= a.start /\ a.end <= b.end

\* the input claims whose range lies inside the range of the output claim
GroupOf(claims, out) ==
  { j \in 1..Len(claims) : Inside(claims[j].range, out.range) }

\* the claim of the group that starts first, the first of the list among
\* those that start together
EarliestOf(claims, group) ==
  CHOOSE j \in group :
    \A i \in group :
      \/ claims[j].range.start < claims[i].range.start
      \/ claims[j].range.start = claims[i].range.start /\ j <= i

\* C33: for input claims with start <= end, mergeClaims returns claims sorted
\* by start in which any two consecutive claims satisfy
\* next.start > previous.end + 10; every input range lies inside exactly one
\* output range, and each output claim keeps the id, text and start of the
\* earliest-starting input claim of its group, with end equal to the maximum
\* end of the group.
C33_MergeGroupsNearbyClaims ==
  Merged =>
    /\ \A k \in 1..(Len(cl.result) - 1) :
         /\ cl.result[k].range.start <= cl.result[k + 1].range.start
         /\ cl.result[k + 1].range.start
              > cl.result[k].range.end + MERGE_DISTANCE
    /\ \A j \in 1..Len(cl.input) :
         Cardinality({ k \in 1..Len(cl.result) :
                        j \in GroupOf(cl.input, cl.result[k]) }) = 1
    /\ \A k \in 1..Len(cl.result) :
         LET group == GroupOf(cl.input, cl.result[k])
             first == cl.input[EarliestOf(cl.input, group)]
         IN  /\ group # {}
             /\ cl.result[k].id = first.id
             /\ cl.result[k].text = first.text
             /\ cl.result[k].range.start = first.range.start
             /\ \A j \in group :
                  cl.input[j].range.end <= cl.result[k].range.end
             /\ \E j \in group :
                  cl.input[j].range.end = cl.result[k].range.end

\* three claims were merged into one that has the id and text of the third,
\* which starts first, and the end of the first, which ends last
C33_Witness ==
  /\ Merged
  /\ Len(cl.input) = 3 /\ Len(cl.result) = 1
  /\ cl.input[3].range.start < cl.input[1].range.start
  /\ cl.input[3].range.start < cl.input[2].range.start
  /\ cl.result[1].id = cl.input[3].id
  /\ cl.result[1].text = cl.input[3].text
  /\ cl.result[1].range.end = cl.input[1].range.end
  /\ cl.input[1].range.end > cl.input[3].range.end


\* C36: the claims returned by extractClaims have pairwise distinct ids,
\* whether an id was supplied by the extractor or generated as claim_<n>, so
\* that remapping an analysis to a claim by id selects exactly the claim it
\* was made for.
C36_ClaimIdsAreDistinct ==
  Validated /\ ~cl.result.threw =>
    \A j, k \in 1..Len(cl.result.claims) :
      cl.result.claims[j].id = cl.result.claims[k].id => j = k


(***************************************************************************)
(* Further properties of the citation strippers (SpecCite)                 *)
(***************************************************************************)
\* C40: stripping is idempotent: stripCitations applied to its own
\* strippedText returns that text unchanged with an empty citation list, that
\* is, the output of stripCitations holds no markdown link with a valid
\* http(s) URL.
C40_StrippingIsIdempotent ==
  cite.pc = "returned" /\ ~cite.keepText =>
    LET again == stripCitations(cite.result.strippedText) IN
    /\ again.strippedText = cite.result.strippedText
    /\ again.citations = <<>>


(***************************************************************************)
(* Properties of the recorded stream (SpecReads)                           *)
(***************************************************************************)
\* the for loop to its end, or to its throw
RECURSIVE RunLines(_)
RunLines(w) ==
  IF w.h.pc = "lines"
  THEN RunLines(NextLine(HandleLine(w, Head(w.h.lines))))
  ELSE w

\* handleStream fed the units in one read, up to its next reader.read()
OneRead(units) ==
  IF units = <<>> THEN SWorld(NewStream, NewStreamObs)
  ELSE RunLines(AfterRead(SWorld(NewStream, NewStreamObs), units))

\* the units the reads have delivered
Delivered == Flatten(rd.chunks)

\* what a caller can tell of a stream world: where the call is, its result or
\* error, what it has accumulated and the callbacks it has made
Outcome(w) ==
  [ pc |-> w.h.pc, result |-> w.h.result, error |-> w.h.error,
    content |-> w.h.content, reasoning |-> w.h.reasoning,
    finishReason |-> w.h.finishReason, toolCallsMap |-> w.h.toolCallsMap,
    locked |-> w.h.locked, o |-> w.o ]

\* the reads have done what one read of all their units does
SplitDoesNotMatter ==
  /\ hs.pc = "await_read" => SHere = OneRead(Delivered)
  /\ hs.pc = "resolved" => SHere = AfterDone(OneRead(Delivered))
  /\ hs.pc = "rejected" /\ hs.error # << "network error" >> =>
       Outcome(SHere) = Outcome(OneRead(Delivered))

\* every line is handled once, when its newline has arrived: as many lines
\* have been handled as newlines delivered, and the text after the last
\* newline is in the buffer, or dropped at the end of the stream
LinesHandledOnce ==
  hs.pc \in { "await_read", "resolved" } =>
    /\ Len(sobs.kinds)
         = Cardinality({ i \in 1..Len(Delivered) : Delivered[i] = NL })
    /\ Len(sobs.calls) + sobs.warned <= Len(sobs.kinds)
    /\ \E n \in 0..Len(Delivered) :
         /\ hs.buffer = SubSeq(Delivered, n + 1, Len(Delivered))
         /\ n > 0 => Delivered[n] = NL
         /\ \A i \in (n + 1)..Len(Delivered) : Delivered[i] # NL

\* a line without the prefix changes nothing and makes no callback
OtherLinesAreIgnored ==
  hs.pc = "await_read" =>
    \A line \in { l \in ReadLines : ~StartsWith(l, Prefix) } :
      HandleLine(SHere, line) = [ SHere EXCEPT !.o.kinds = Append(@, "other") ]

\* C35: the result of a streaming call and the sequence of callback
\* invocations depend only on the bytes of the stream, not on how they are
\* split into reads: a data line split across two or more reads is parsed
\* exactly once, after its terminating newline has arrived; lines without
\* the prefix are ignored; text after the last newline at stream end is
\* discarded without being parsed.
C35_ReadsDoNotMatter ==
  rd.chunks # <<>> =>
    /\ SplitDoesNotMatter
    /\ LinesHandledOnce
    /\ OtherLinesAreIgnored

\* a content frame arrived in four reads and was handed to onChunk once; the
\* tool-call frame after it never got its newline and was dropped
C35_Witness ==
  /\ hs.pc = "resolved"
  /\ Len(rd.chunks) = 4
  /\ rd.chunks[1] = << "da" >> /\ rd.chunks[2] = << "ta: " >>
  /\ rd.chunks[3] = << "{c}" >>
  /\ rd.chunks[4] = << NL >> \o Data("{t0a}")
  /\ sobs.calls = << [ cb |-> "onChunk", arg |-> << "x" >> ] >>
  /\ hs.result.content = << "x" >> /\ hs.result.toolCalls = <<>>


(***************************************************************************)
(* Properties of one call of fetchExcerptsBatch (SpecBatch)                *)
(***************************************************************************)
\* the fetchExcerpt calls made so far are for the first pairs of the list, in
\* its order, one call each; the other pairs are in the queue
CalledInOrder ==
  /\ Len(exobs.called) <= Len(exobs.sources)
  /\ exobs.called = SubSeq(exobs.sources, 1, Len(exobs.called))
  /\ ex.queue
       = SubSeq(exobs.sources, Len(exobs.called) + 1, Len(exobs.sources))

\* the calls that have not been through results.set are those the workers
\* are waiting for: no worker waits for a pair another worker has
OneWorkerPerCall ==
  Len(exobs.called) - Len(exobs.returned) = InFlight(ex)

\* a call that has not returned has a request that is still to settle
NeverStuck ==
  ex.pc = "running" => InFlight(ex) > 0

\* C32: for any input list, the empty one included, fetchExcerptsBatch
\* terminates after calling fetchExcerpt exactly once for each input pair:
\* the workers skip no queued pair and hand no pair to two workers, provided
\* every fetch eventually returns.
C32_EveryPairFetchedOnce ==
  /\ [](CalledInOrder /\ OneWorkerPerCall /\ NeverStuck)
  /\ [](ex.pc = "resolved" =>
          exobs.called = exobs.sources /\ ex.queue = <<>>)
  /\ (ex.pc = "running") ~> (ex.pc = "resolved")

\* a list of four pairs, two of them the same, has been worked off by three
\* workers: four calls, in the order of the list
C32_Witness ==
  /\ ex.pc = "resolved"
  /\ exobs.sources = PairList(FirstBatchPairs, 4)
  /\ exobs.called = exobs.sources
  /\ Len(ex.workers) = 3
  /\ Len(exobs.returned) = 4

\* C37: fetchExcerptsBatch returns a result for every input pair: no pair's
\* result is missing from the returned map or overwritten by the result of
\* another pair, whatever order the workers complete in.
C37_EveryPairHasItsResult ==
  ex.pc = "resolved" =>
    \A i \in 1..Len(exobs.sources) :
      LET pair == exobs.sources[i] IN
      /\ pair.source.url \in DOMAIN ex.results
      /\ \E j \in 1..Len(exobs.returned) :
           /\ exobs.returned[j].item = pair
           /\ exobs.returned[j].result = ex.results[pair.source.url]

(***************************************************************************)
(* Properties of runs that reach the iteration ceiling (SpecCeiling)       *)
(***************************************************************************)
\* the last turn was turn MAX_ITERATIONS and it requested tools
AtCeiling ==
  /\ run.iteration = MAX_ITERATIONS
  /\ run.lastResponse # NoResponse
  /\ ~EndsGathering(run.lastResponse)

\* the run has left the gathering loop
InPhaseThree == run.pc \in { "await_timer", "await_stream", "resolved" }

\* every tool call of the last turn was executed, in order, and its result or
\* error is in the history
LastTurnExecuted ==
  LET calls == run.lastResponse.message.tool_calls
      n == Len(calls)
      m == Len(run.messages)
  IN  /\ run.toolCalls = calls
      /\ Len(obs.outcomes) = n
      /\ m >= n + 1
      /\ run.messages[m - n] = run.lastResponse.message
      /\ \A k \in 1..n :
           /\ run.messages[m - n + k].role = "tool"
           /\ run.messages[m - n + k].tool_call_id = calls[k].id

\* C34: if every gathering turn up to the iteration ceiling requests tools,
\* the run is degraded but not failed: the tool calls of the last turn are
\* executed, the run goes on to finalization, executeResearchQuery resolves
\* and the hook reaches status 'complete', provided every provider call
\* returns.
C34_CeilingDegradesWithoutFailing ==
  /\ [](run.pc # "rejected" /\ state.status # "error")
  /\ [](run.pc # "idle" /\ InPhaseThree => AtCeiling /\ LastTurnExecuted)
  /\ [](run.pc = "resolved" => state.status = "complete")
  /\ (run.pc = "await_chat") ~> (run.pc = "resolved")

\* a run of MAX_ITERATIONS turns whose last turn requested two tools and said
\* nothing has resolved after a streamed synthesis
C34_Witness ==
  /\ run.pc = "resolved" /\ state.status = "complete"
  /\ obs.chatRequests = MAX_ITERATIONS /\ obs.streamRequests = 1
  /\ AtCeiling /\ Len(run.lastResponse.message.tool_calls) = 2
  /\ Len(obs.outcomes) = 2

(***************************************************************************)
(* Properties of overlapping runs (SpecOverlap)                            *)
(***************************************************************************)
\* the fields the page shows
Shown(st) == << st.currentResponse, st.toolCalls, st.sources, st.status >>

\* C38: if submitQuery is called while an earlier run is in flight, the
\* events of the earlier run do not alter the state of the later run: after
\* the later START, currentResponse, toolCalls, sources and status reflect
\* only events of the run started last.
C38_EarlierRunIsIgnored == Shown(ov.state) = Shown(ov.mirror)

(***************************************************************************)
(* Properties of analyze on its return (SpecMode)                          *)
(***************************************************************************)
\* the step in which analyze returns after runCitationMode has resolved
AnalyzeCompletes ==
  an.pc # "idle" /\ an'.pc = "idle" /\ an'.result # JSONnull

\* isProcessing is false, error is unset, the phase is 'complete' and bases
\* holds the returned Bases sorted by claimRange.start
CompletionIsShown ==
  /\ ~cm'.isProcessing /\ cm'.error = UNDEFINED
  /\ cm'.progress.phase = "complete"
  /\ cm'.bases = sortBasesByPosition(an'.result.bases)

\* bases is reported as complete on every return
CompletionIsAlwaysShown == [][AnalyzeCompletes => CompletionIsShown]_vars

\* C39: after analyze() completes successfully the citation-mode state holds
\* all outputs of the run: strippedResponse and originalCitations equal the
\* stripped text and citations returned by runCitationMode, bases equals the
\* returned Bases sorted by claimRange.start, isProcessing is false, error is
\* unset and the phase is 'complete'.
C39_StateHoldsOutputsOfRun ==
  [][AnalyzeCompletes =>
       /\ CompletionIsShown
       /\ cm'.strippedResponse = an'.result.strippedResponse
       /\ cm'.originalCitations = an'.result.originalCitations]_vars

====
